---- MODULE Spec2Model ----
(***************************************************************************)
(* HEXWAR game engine (hexwar-core): board geometry, piece catalogue,      *)
(* move generation and move application, as a state machine over the       *)
(* fields of GameState.                                                    *)
(***************************************************************************)
EXTENDS Integers, Sequences, FiniteSets, TLC

(***************************************************************************)
(* Bounds of the exploration.                                              *)
(***************************************************************************)
\* number of moves applied along one explored game
MaxPlies == 3

(***************************************************************************)
(* board.rs                                                                *)
(***************************************************************************)
BOARD_RADIUS == 4

Abs(x) == IF x < 0 THEN -x ELSE x

\* Option<Hex>::None
None == <<9, 9>>

is_valid(h) ==
    /\ Abs(h[1]) <= BOARD_RADIUS
    /\ Abs(h[2]) <= BOARD_RADIUS
    /\ Abs(h[1] + h[2]) <= BOARD_RADIUS

distance_to_center(h) == (Abs(h[1]) + Abs(h[2]) + Abs(h[1] + h[2])) \div 2

distance_to(h, other) ==
    (Abs(h[1] - other[1]) + Abs(h[2] - other[2])
        + Abs((h[1] + h[2]) - (other[1] + other[2]))) \div 2

\* index 0=N, 1=NE, 2=SE, 3=S, 4=SW, 5=NW (stored 1-based)
DIRECTIONS == << <<0, -1>>, <<1, -1>>, <<1, 0>>, <<0, 1>>, <<-1, 1>>, <<-1, 0>> >>

absolute_direction(facing, relative) == (facing + relative) % 6

direction_vector(facing, relative) == DIRECTIONS[absolute_direction(facing, relative) + 1]

(***************************************************************************)
(* pieces.rs                                                               *)
(***************************************************************************)
DIR_F == 1
DIR_FR == 2
DIR_BR == 4
DIR_B == 8
DIR_BL == 16
DIR_FL == 32
ALL_DIRS == DIR_F + DIR_FR + DIR_BR + DIR_B + DIR_BL + DIR_FL
FORWARD_ARC == DIR_F + DIR_FL + DIR_FR
DIAGONAL_DIRS == DIR_FL + DIR_FR + DIR_BL + DIR_BR
FORWARD_BACK == DIR_F + DIR_B
TRIDENT_DIRS == DIR_FL + DIR_FR + DIR_B

PieceType(id, move_type, range, dirs, special, is_king) ==
    [id |-> id, move_type |-> move_type, move_range |-> range,
     directions |-> dirs, special |-> special, is_king |-> is_king]

PIECE_TYPES == <<
    PieceType("A1", "Step", 1, DIR_F, "None", FALSE),
    PieceType("A2", "Step", 1, ALL_DIRS, "None", FALSE),
    PieceType("A3", "Step", 1, FORWARD_ARC, "None", FALSE),
    PieceType("A4", "Step", 1, DIR_FL + DIR_FR + DIR_B, "None", FALSE),
    PieceType("A5", "Step", 1, DIR_FL + DIR_FR, "None", FALSE),
    PieceType("B1", "Step", 2, DIR_F, "None", FALSE),
    PieceType("B2", "Step", 2, DIR_FL + DIR_FR, "None", FALSE),
    PieceType("B3", "Step", 2, ALL_DIRS, "None", FALSE),
    PieceType("B4", "Step", 2, FORWARD_ARC, "None", FALSE),
    PieceType("C1", "Step", 3, DIR_F, "None", FALSE),
    PieceType("C2", "Step", 3, FORWARD_ARC, "None", FALSE),
    PieceType("C3", "Step", 3, ALL_DIRS, "None", FALSE),
    PieceType("D1", "Slide", 99, DIR_F, "None", FALSE),
    PieceType("D2", "Slide", 99, FORWARD_BACK, "None", FALSE),
    PieceType("D3", "Slide", 99, DIAGONAL_DIRS, "None", FALSE),
    PieceType("D4", "Slide", 99, FORWARD_ARC, "None", FALSE),
    PieceType("D5", "Slide", 99, ALL_DIRS, "None", FALSE),
    PieceType("E1", "Jump", 2, FORWARD_ARC, "None", FALSE),
    PieceType("E2", "Jump", 2, ALL_DIRS, "None", FALSE),
    PieceType("F1", "Jump", 3, FORWARD_ARC, "None", FALSE),
    PieceType("F2", "Jump", 3, ALL_DIRS, "None", FALSE),
    PieceType("W1", "None", 0, 0, "SwapMove", FALSE),
    PieceType("W2", "Step", 1, ALL_DIRS, "SwapRotate", FALSE),
    PieceType("P1", "Step", 1, FORWARD_ARC, "Rebirth", FALSE),
    PieceType("G1", "Step", 1, ALL_DIRS, "Phased", FALSE),
    PieceType("K1", "Step", 1, ALL_DIRS, "None", TRUE),
    PieceType("K2", "Step", 1, FORWARD_ARC, "None", TRUE),
    PieceType("K3", "Step", 2, ALL_DIRS, "None", TRUE),
    PieceType("K4", "Jump", 2, ALL_DIRS, "None", TRUE),
    PieceType("K5", "Slide", 99, DIR_F, "None", TRUE),
    PieceType("B5", "Step", 2, TRIDENT_DIRS, "None", FALSE),
    PieceType("D6", "Slide", 99, TRIDENT_DIRS, "None", FALSE) >>

\* PIECE_TYPES.iter().position(|pt| pt.id == id); every id used below exists
piece_id_to_index(id) == (CHOOSE i \in 1..Len(PIECE_TYPES) : PIECE_TYPES[i].id = id) - 1

get_piece_type(idx) == PIECE_TYPES[idx + 1]

\* (pt.directions & (1 << rel_dir)) != 0
has_direction(directions, rel_dir) == (directions \div (2 ^ rel_dir)) % 2 = 1

(***************************************************************************)
(* game.rs: constants and core types                                       *)
(***************************************************************************)
MAX_ROUNDS == 50
PT_P1 == 23

opponent(p) == IF p = "White" THEN "Black" ELSE "White"

TEMPLATE_A == << <<"Rotate", "Any">>, <<"Move", "Same">> >>
TEMPLATE_B == << <<"Move", "Any">>, <<"Rotate", "Any">>, <<"Rotate", "Any">> >>
TEMPLATE_C == << <<"Move", "Any">>, <<"Move", "Different">>, <<"Rotate", "Any">> >>
TEMPLATE_D == << <<"Move", "Any">>, <<"Rotate", "Different">> >>
TEMPLATE_E == << <<"MoveOrRotate", "Any">> >>
TEMPLATE_F == << <<"Move", "Any">>, <<"Rotate", "Same">> >>

get_template_actions(template) ==
    CASE template = "A" -> TEMPLATE_A
      [] template = "B" -> TEMPLATE_B
      [] template = "C" -> TEMPLATE_C
      [] template = "D" -> TEMPLATE_D
      [] template = "E" -> TEMPLATE_E
      [] template = "F" -> TEMPLATE_F

Piece(piece_type, owner, facing) ==
    [piece_type |-> piece_type, owner |-> owner, facing |-> facing]

is_king(piece) == get_piece_type(piece.piece_type).is_king

special(piece) == get_piece_type(piece.piece_type).special

\* enum Move; fields a variant does not carry hold None / 0.
\* Rotate.pos is stored in from, Swap.target and Rebirth.dest in to.
Move(kind, from, to, new_facing) ==
    [kind |-> kind, from |-> from, to |-> to, new_facing |-> new_facing]

Pass == Move("Pass", None, None, 0)
Surrender == Move("Surrender", None, None, 0)
Movement(from, to, new_facing) == Move("Movement", from, to, new_facing)
Rotate(pos, new_facing) == Move("Rotate", pos, None, new_facing)
Swap(from, target) == Move("Swap", from, target, 0)
Rebirth(dest, new_facing) == Move("Rebirth", None, dest, new_facing)

\* Option<Move>::None
NoMove == Move("None", None, None, 0)

(***************************************************************************)
(* game.rs: GameState::new                                                 *)
(***************************************************************************)
\* the entry a later insert leaves at hex h: the last one of the list
LastAt(pieces, h) ==
    LET i == CHOOSE j \in 1..Len(pieces) :
                 /\ pieces[j][2] = h
                 /\ \A k \in (j + 1)..Len(pieces) : pieces[k][2] # h
    IN pieces[i]

HexesOf(pieces) == {pieces[i][2] : i \in 1..Len(pieces)}

\* position of the last king of the list, None without a king
KingOf(pieces) ==
    LET ks == {i \in 1..Len(pieces) : get_piece_type(pieces[i][1]).is_king}
    IN IF ks = {} THEN None
       ELSE pieces[CHOOSE i \in ks : \A j \in ks : j <= i][2]

new(white_pieces, black_pieces, white_template, black_template) ==
    [board |-> [h \in HexesOf(white_pieces) \cup HexesOf(black_pieces) |->
                   IF h \in HexesOf(black_pieces)
                   THEN Piece(LastAt(black_pieces, h)[1], "Black", LastAt(black_pieces, h)[3])
                   ELSE Piece(LastAt(white_pieces, h)[1], "White", LastAt(white_pieces, h)[3])],
     white_king_pos |-> KingOf(white_pieces),
     black_king_pos |-> KingOf(black_pieces),
     current_player |-> "White",
     white_template |-> white_template,
     black_template |-> black_template,
     action_index |-> 0,
     last_piece_pos |-> None,
     round |-> 1,
     result |-> "Ongoing",
     white_phoenix_captured |-> FALSE,
     black_phoenix_captured |-> FALSE]

(***************************************************************************)
(* game.rs: template helpers                                               *)
(***************************************************************************)
current_template(s) ==
    IF s.current_player = "White" THEN s.white_template ELSE s.black_template

\* Option<(ActionType, Constraint)>::None
NoAction == <<"None", "None">>

current_action(s) ==
    LET actions == get_template_actions(current_template(s))
    IN IF s.action_index < Len(actions) THEN actions[s.action_index + 1] ELSE NoAction

\* variant: the turn is complete only past the template's end
is_turn_complete_past_end(s) ==
    s.action_index > Len(get_template_actions(current_template(s)))

is_turn_complete(s) ==
    s.action_index >= Len(get_template_actions(current_template(s)))

(***************************************************************************)
(* game.rs: hex geometry helpers                                           *)
(***************************************************************************)
\* all hexes at exactly `distance` from center: six sides of `distance` steps
iter_hex_ring(center, distance) ==
    {<<center[1] + distance * DIRECTIONS[((side + 4) % 6) + 1][1] + step * DIRECTIONS[side + 1][1],
       center[2] + distance * DIRECTIONS[((side + 4) % 6) + 1][2] + step * DIRECTIONS[side + 1][2]>> :
        side \in 0..5, step \in 0..(distance - 1)}

\* The code turns the offset into cartesian x = 1.5 dq, y = 0.866 dq + 1.732 dr,
\* takes the angle and keeps the hex when it is within 75 degrees of
\* FACING_ANGLES[facing], which is the angle of DIRECTIONS[facing].  With
\* f = DIRECTIONS[facing] the cosine of the difference is D / (4 sqrt(N)) for
\* D = 3 dq fq + (dq + 2 dr)(fq + 2 fr), N = dq^2 + dq dr + dr^2, and the test
\* diff <= 75 is D > 0 /\ D^2 >= 16 N cos^2(75), cos^2(75) = 0.0669873.
in_forward_arc(from, to, facing) ==
    LET dq == to[1] - from[1]
        dr == to[2] - from[2]
        f == DIRECTIONS[facing + 1]
        D == 3 * dq * f[1] + (dq + 2 * dr) * (f[1] + 2 * f[2])
        N == dq * dq + dq * dr + dr * dr
    IN D > 0 /\ D * D * 10000000 >= 16 * N * 669873

(***************************************************************************)
(* game.rs: move generation                                                *)
(***************************************************************************)
\* variant: Different lets every piece act
satisfies_constraint_different_as_any(s, pos, constraint) ==
    CASE constraint = "Any" -> TRUE
      [] constraint = "Same" -> s.last_piece_pos = pos
      [] constraint = "Different" -> TRUE

satisfies_constraint(s, pos, constraint) ==
    CASE constraint = "Any" -> TRUE
      [] constraint = "Same" -> s.last_piece_pos = pos
      [] constraint = "Different" -> s.last_piece_pos # pos

generate_swap_moves(s, from) ==
    IF from \notin DOMAIN s.board THEN {}
    ELSE {Swap(from, target) : target \in
            {t \in DOMAIN s.board : t # from /\ s.board[t].owner = s.board[from].owner}}

generate_jump_moves(s, pos, piece, is_ghost) ==
    LET pt == get_piece_type(piece.piece_type)
        is_forward_arc == pt.directions = FORWARD_ARC
        dests == {dest \in iter_hex_ring(pos, pt.move_range) :
                    /\ is_valid(dest)
                    /\ ~(is_forward_arc /\ ~in_forward_arc(pos, dest, piece.facing))
                    /\ IF dest \in DOMAIN s.board
                       THEN /\ s.board[dest].owner # piece.owner
                            /\ ~is_ghost
                            /\ special(s.board[dest]) # "Phased"
                       ELSE TRUE}
    IN {Movement(pos, dest, piece.facing) : dest \in dests}

\* the hex k steps from pos along (dq, dr)
Walk(pos, d, k) == <<pos[1] + k * d[1], pos[2] + k * d[2]>>

\* the walk reaches step k: steps 1..k are on the board, steps 1..k-1 are empty
Reaches(s, pos, d, k) ==
    /\ \A j \in 1..k : is_valid(Walk(pos, d, j))
    /\ \A j \in 1..(k - 1) : Walk(pos, d, j) \notin DOMAIN s.board

\* variant: a ghost that moves may capture
generate_step_moves_ghost_captures(s, pos, piece, is_ghost) ==
    LET pt == get_piece_type(piece.piece_type)
        ok(rel_dir, k) ==
            LET d == direction_vector(piece.facing, rel_dir)
                current == Walk(pos, d, k)
            IN /\ Reaches(s, pos, d, k)
               /\ IF current \in DOMAIN s.board
                  THEN /\ s.board[current].owner # piece.owner
                       /\ special(s.board[current]) # "Phased"
                  ELSE TRUE
    IN {Movement(pos, Walk(pos, direction_vector(piece.facing, x[1]), x[2]), piece.facing) :
          x \in {y \in (0..5) \X (1..pt.move_range) :
                   has_direction(pt.directions, y[1]) /\ ok(y[1], y[2])}}

generate_step_moves(s, pos, piece, is_ghost) ==
    LET pt == get_piece_type(piece.piece_type)
        ok(rel_dir, k) ==
            LET d == direction_vector(piece.facing, rel_dir)
                current == Walk(pos, d, k)
            IN /\ Reaches(s, pos, d, k)
               /\ IF current \in DOMAIN s.board
                  THEN /\ s.board[current].owner # piece.owner
                       /\ ~is_ghost
                       /\ special(s.board[current]) # "Phased"
                  ELSE TRUE
    IN {Movement(pos, Walk(pos, direction_vector(piece.facing, x[1]), x[2]), piece.facing) :
          x \in {y \in (0..5) \X (1..pt.move_range) :
                   has_direction(pt.directions, y[1]) /\ ok(y[1], y[2])}}

\* the slide loop leaves the board within a board diameter of steps
generate_slide_moves(s, pos, piece, is_ghost) ==
    LET pt == get_piece_type(piece.piece_type)
        ok(rel_dir, k) ==
            LET d == direction_vector(piece.facing, rel_dir)
                current == Walk(pos, d, k)
            IN /\ Reaches(s, pos, d, k)
               /\ IF current \in DOMAIN s.board
                  THEN /\ s.board[current].owner # piece.owner
                       /\ ~is_ghost
                       /\ special(s.board[current]) # "Phased"
                  ELSE TRUE
    IN {Movement(pos, Walk(pos, direction_vector(piece.facing, x[1]), x[2]), piece.facing) :
          x \in {y \in (0..5) \X (1..(2 * BOARD_RADIUS + 1)) :
                   has_direction(pt.directions, y[1]) /\ ok(y[1], y[2])}}

generate_destinations(s, pos, piece) ==
    LET pt == get_piece_type(piece.piece_type)
        is_ghost == special(piece) = "Phased"
    IN CASE pt.move_type = "None" -> {}
         [] pt.move_type = "Jump" -> generate_jump_moves(s, pos, piece, is_ghost)
         [] pt.move_type = "Step" -> generate_step_moves(s, pos, piece, is_ghost)
         [] pt.move_type = "Slide" -> generate_slide_moves(s, pos, piece, is_ghost)

generate_movement_moves(s, pos, piece) ==
    generate_destinations(s, pos, piece)
        \cup (IF get_piece_type(piece.piece_type).special = "SwapMove"
              THEN generate_swap_moves(s, pos) ELSE {})

\* variant: pieces that move in all directions rotate too
generate_rotation_moves_every_piece(s, pos, piece) ==
    {Rotate(pos, new_facing) : new_facing \in 0..5}
        \cup (IF get_piece_type(piece.piece_type).special = "SwapRotate"
              THEN generate_swap_moves(s, pos) ELSE {})

generate_rotation_moves(s, pos, piece) ==
    (IF get_piece_type(piece.piece_type).directions # ALL_DIRS
     THEN {Rotate(pos, new_facing) : new_facing \in 0..5} ELSE {})
        \cup (IF get_piece_type(piece.piece_type).special = "SwapRotate"
              THEN generate_swap_moves(s, pos) ELSE {})

\* variant: the destination is not tested for a piece
generate_rebirth_moves_onto_pieces(s) ==
    LET phoenix_captured == IF s.current_player = "White"
                            THEN s.white_phoenix_captured ELSE s.black_phoenix_captured
        king_pos == IF s.current_player = "White"
                    THEN s.white_king_pos ELSE s.black_king_pos
    IN IF ~phoenix_captured THEN {}
       ELSE IF king_pos = None THEN {}
       ELSE {Rebirth(dest, new_facing) :
               dest \in {h \in {<<king_pos[1] + DIRECTIONS[i][1], king_pos[2] + DIRECTIONS[i][2]>> : i \in 1..6} :
                           is_valid(h)},
               new_facing \in 0..5}

generate_rebirth_moves(s) ==
    LET phoenix_captured == IF s.current_player = "White"
                            THEN s.white_phoenix_captured ELSE s.black_phoenix_captured
        king_pos == IF s.current_player = "White"
                    THEN s.white_king_pos ELSE s.black_king_pos
    IN IF ~phoenix_captured THEN {}
       ELSE IF king_pos = None THEN {}
       ELSE {Rebirth(dest, new_facing) :
               dest \in {h \in {<<king_pos[1] + DIRECTIONS[i][1], king_pos[2] + DIRECTIONS[i][2]>> : i \in 1..6} :
                           is_valid(h) /\ h \notin DOMAIN s.board},
               new_facing \in 0..5}

\* variant: a decided game still offers moves
legal_moves_ignoring_result(s) ==
    IF current_action(s) = NoAction THEN {}
    ELSE LET action_type == current_action(s)[1]
             constraint == current_action(s)[2]
             actors == {pos \in DOMAIN s.board :
                          /\ s.board[pos].owner = s.current_player
                          /\ satisfies_constraint(s, pos, constraint)}
         IN {Pass, Surrender}
              \cup UNION {CASE action_type = "Move" ->
                                 generate_movement_moves(s, pos, s.board[pos])
                            [] action_type = "Rotate" ->
                                 generate_rotation_moves(s, pos, s.board[pos])
                            [] action_type = "MoveOrRotate" ->
                                 generate_movement_moves(s, pos, s.board[pos])
                                   \cup generate_rotation_moves(s, pos, s.board[pos]) :
                          pos \in actors}
              \cup (IF action_type \in {"Move", "MoveOrRotate"}
                    THEN generate_rebirth_moves(s) ELSE {})

\* the moves of Vec<Move>, as a set
legal_moves(s) ==
    IF s.result # "Ongoing" THEN {}
    ELSE IF current_action(s) = NoAction THEN {}
    ELSE LET action_type == current_action(s)[1]
             constraint == current_action(s)[2]
             actors == {pos \in DOMAIN s.board :
                          /\ s.board[pos].owner = s.current_player
                          /\ satisfies_constraint(s, pos, constraint)}
         IN {Pass, Surrender}
              \cup UNION {CASE action_type = "Move" ->
                                 generate_movement_moves(s, pos, s.board[pos])
                            [] action_type = "Rotate" ->
                                 generate_rotation_moves(s, pos, s.board[pos])
                            [] action_type = "MoveOrRotate" ->
                                 generate_movement_moves(s, pos, s.board[pos])
                                   \cup generate_rotation_moves(s, pos, s.board[pos]) :
                          pos \in actors}
              \cup (IF action_type \in {"Move", "MoveOrRotate"}
                    THEN generate_rebirth_moves(s) ELSE {})

(***************************************************************************)
(* game.rs: move application                                               *)
(***************************************************************************)
\* board.remove(&hex)
Remove(b, hex) == [h \in DOMAIN b \ {hex} |-> b[h]]

\* board.insert(hex, piece)
Insert(b, hex, piece) == [h \in DOMAIN b \cup {hex} |-> IF h = hex THEN piece ELSE b[h]]

\* variant: the captured king's own side is given the win
capture_king_owner_wins(s, captured) ==
    IF is_king(captured)
    THEN [s EXCEPT !.result = IF captured.owner = "White" THEN "WhiteWins" ELSE "BlackWins"]
    ELSE s

\* "Handle capture": a captured king decides the game for the player to move
capture_king(s, captured) ==
    IF is_king(captured)
    THEN [s EXCEPT !.result = IF s.current_player = "White" THEN "WhiteWins" ELSE "BlackWins"]
    ELSE s

\* variant: every captured piece goes to the graveyard flag
capture_phoenix_any_piece(s, captured) ==
    IF captured.owner = "White"
    THEN [s EXCEPT !.white_phoenix_captured = TRUE]
    ELSE [s EXCEPT !.black_phoenix_captured = TRUE]

\* "Track Phoenix capture"
capture_phoenix(s, captured) ==
    IF captured.piece_type = PT_P1
    THEN IF captured.owner = "White"
         THEN [s EXCEPT !.white_phoenix_captured = TRUE]
         ELSE [s EXCEPT !.black_phoenix_captured = TRUE]
    ELSE s

\* "Update king position", insert the piece, remember where it went
place_piece(s, piece, to) ==
    [s EXCEPT !.white_king_pos = IF is_king(piece) /\ s.current_player = "White"
                                 THEN to ELSE s.white_king_pos,
              !.black_king_pos = IF is_king(piece) /\ s.current_player # "White"
                                 THEN to ELSE s.black_king_pos,
              !.board = Insert(s.board, to, piece),
              !.last_piece_pos = to]

\* the state with the moving piece lifted off the board, any capture handled
lift_and_capture(s, from, to) ==
    IF to \in DOMAIN Remove(s.board, from)
    THEN capture_phoenix(capture_king([s EXCEPT !.board = Remove(Remove(s.board, from), to)],
                                      s.board[to]),
                         s.board[to])
    ELSE [s EXCEPT !.board = Remove(s.board, from)]

apply_movement(s, from, to, new_facing) ==
    place_piece(lift_and_capture(s, from, to),
                [s.board[from] EXCEPT !.facing = new_facing], to)

apply_swap(s, from, target) ==
    LET piece1 == s.board[from]
        piece2 == s.board[target]
        b == Insert(Insert(Remove(Remove(s.board, from), target), from, piece2), target, piece1)
    IN [s EXCEPT !.board = b,
                 !.white_king_pos = IF s.white_king_pos = from THEN target
                                    ELSE IF s.white_king_pos = target THEN from
                                    ELSE s.white_king_pos,
                 !.black_king_pos = IF s.black_king_pos = from THEN target
                                    ELSE IF s.black_king_pos = target THEN from
                                    ELSE s.black_king_pos,
                 !.last_piece_pos = from]

apply_rebirth(s, dest, new_facing) ==
    LET phoenix == Piece(PT_P1, s.current_player, new_facing)
        s1 == [s EXCEPT !.board = Insert(s.board, dest, phoenix)]
        s2 == IF s.current_player = "White"
              THEN [s1 EXCEPT !.white_phoenix_captured = FALSE]
              ELSE [s1 EXCEPT !.black_phoenix_captured = FALSE]
    IN [s2 EXCEPT !.last_piece_pos = dest]

\* variant: a full tie goes to Black
resolve_by_proximity_tie_to_black(s) ==
    IF s.white_king_pos = None THEN [s EXCEPT !.result = "BlackWins"]
    ELSE IF s.black_king_pos = None THEN [s EXCEPT !.result = "WhiteWins"]
    ELSE LET white_dist == distance_to_center(s.white_king_pos)
             black_dist == distance_to_center(s.black_king_pos)
             white_count == Cardinality({h \in DOMAIN s.board : s.board[h].owner = "White"})
             black_count == Cardinality({h \in DOMAIN s.board : s.board[h].owner = "Black"})
         IN IF white_dist < black_dist THEN [s EXCEPT !.result = "WhiteWins"]
            ELSE IF black_dist < white_dist THEN [s EXCEPT !.result = "BlackWins"]
            ELSE IF white_count > black_count THEN [s EXCEPT !.result = "WhiteWins"]
            ELSE [s EXCEPT !.result = "BlackWins"]

resolve_by_proximity(s) ==
    IF s.white_king_pos = None THEN [s EXCEPT !.result = "BlackWins"]
    ELSE IF s.black_king_pos = None THEN [s EXCEPT !.result = "WhiteWins"]
    ELSE LET white_dist == distance_to_center(s.white_king_pos)
             black_dist == distance_to_center(s.black_king_pos)
             white_count == Cardinality({h \in DOMAIN s.board : s.board[h].owner = "White"})
             black_count == Cardinality({h \in DOMAIN s.board : s.board[h].owner = "Black"})
         IN IF white_dist < black_dist THEN [s EXCEPT !.result = "WhiteWins"]
            ELSE IF black_dist < white_dist THEN [s EXCEPT !.result = "BlackWins"]
            ELSE IF white_count > black_count THEN [s EXCEPT !.result = "WhiteWins"]
            ELSE IF black_count > white_count THEN [s EXCEPT !.result = "BlackWins"]
            ELSE [s EXCEPT !.result = "WhiteWins"]

\* variant: the game is resolved one round later
check_round_limit_one_round_late(s) ==
    IF s.round > MAX_ROUNDS + 1 /\ s.result = "Ongoing" THEN resolve_by_proximity(s) ELSE s

\* "Check round limit"
check_round_limit(s) ==
    IF s.round > MAX_ROUNDS /\ s.result = "Ongoing" THEN resolve_by_proximity(s) ELSE s

\* variant: the round is counted when play passes to Black
end_turn_round_on_black(s) ==
    check_round_limit(
        [s EXCEPT !.current_player = opponent(s.current_player),
                  !.action_index = 0,
                  !.last_piece_pos = None,
                  !.round = IF opponent(s.current_player) = "Black"
                            THEN s.round + 1 ELSE s.round])

end_turn(s) ==
    check_round_limit(
        [s EXCEPT !.current_player = opponent(s.current_player),
                  !.action_index = 0,
                  !.last_piece_pos = None,
                  !.round = IF opponent(s.current_player) = "White"
                            THEN s.round + 1 ELSE s.round])

\* variant: Surrender gives the win to the player who surrenders
apply_move_arm_surrender_wins(s, mv) ==
    CASE mv.kind = "Pass" -> s
      [] mv.kind = "Surrender" ->
            [s EXCEPT !.result = IF s.current_player = "White"
                                 THEN "WhiteWins" ELSE "BlackWins"]
      [] mv.kind = "Movement" -> apply_movement(s, mv.from, mv.to, mv.new_facing)
      [] mv.kind = "Rotate" ->
            [s EXCEPT !.board = IF mv.from \in DOMAIN s.board
                                THEN [s.board EXCEPT ![mv.from].facing = mv.new_facing]
                                ELSE s.board,
                      !.last_piece_pos = mv.from]
      [] mv.kind = "Swap" -> apply_swap(s, mv.from, mv.to)
      [] mv.kind = "Rebirth" -> apply_rebirth(s, mv.to, mv.new_facing)

\* the match arms of apply_move_internal, before the action counter advances
apply_move_arm(s, mv) ==
    CASE mv.kind = "Pass" -> s
      [] mv.kind = "Surrender" ->
            [s EXCEPT !.result = IF s.current_player = "White"
                                 THEN "BlackWins" ELSE "WhiteWins"]
      [] mv.kind = "Movement" -> apply_movement(s, mv.from, mv.to, mv.new_facing)
      [] mv.kind = "Rotate" ->
            [s EXCEPT !.board = IF mv.from \in DOMAIN s.board
                                THEN [s.board EXCEPT ![mv.from].facing = mv.new_facing]
                                ELSE s.board,
                      !.last_piece_pos = mv.from]
      [] mv.kind = "Swap" -> apply_swap(s, mv.from, mv.to)
      [] mv.kind = "Rebirth" -> apply_rebirth(s, mv.to, mv.new_facing)

\* "End turn if complete"
finish_action(s) == IF is_turn_complete(s) THEN end_turn(s) ELSE s

\* "Advance action"
advance_action(s) == finish_action([s EXCEPT !.action_index = s.action_index + 1])

apply_move_internal(s, mv) == advance_action(apply_move_arm(s, mv))

apply_move(s, mv) == apply_move_internal(s, mv)

(***************************************************************************)
(* eval.rs.  An f32 score is counted in hundredths: 1.0 is 100.            *)
(***************************************************************************)
WIN_VALUE == 10000000

KOTH_MAX_URGENCY == 5000

KOTH_ROUND_LIMIT == 50

\* Heuristics::default(): piece_values[0..32], center_weight 1.5,
\* mobility_weight 0.0
DefaultHeuristics ==
    [piece_values |-> << 400, 1000, 600, 600, 500,
                         700, 800, 1400, 900,
                         900, 1200, 1600,
                         1000, 1200, 1200, 1300, 1900,
                         900, 1000, 1000, 1100,
                         800, 850, 800, 600,
                         0, 0, 0, 0, 0,
                         800, 1100 >>,
     center_weight |-> 150,
     mobility_weight |-> 0]

\* the sum of the values of a function over its finite domain
RECURSIVE SumOf(_)
SumOf(f) ==
    IF DOMAIN f = {} THEN 0
    ELSE LET x == CHOOSE y \in DOMAIN f : TRUE
         IN f[x] + SumOf([y \in DOMAIN f \ {x} |-> f[y]])

\* GameState::mobility: count_piece_mobility counts, with the tests of
\* generate_destinations, the destinations that function pushes
mobility(s, player) ==
    SumOf([pos \in {h \in DOMAIN s.board : s.board[h].owner = player} |->
              Cardinality(generate_destinations(s, pos, s.board[pos]))])

\* "Material and position evaluation": the value of the piece at hex, added
\* for the player to move and subtracted for the other
piece_term(s, heuristics, hex) ==
    LET piece_value == IF is_king(s.board[hex]) THEN 0
                       ELSE heuristics.piece_values[s.board[hex].piece_type + 1]
        center_bonus == heuristics.center_weight * (4 - distance_to_center(hex))
    IN IF s.board[hex].owner = s.current_player
       THEN piece_value + center_bonus
       ELSE -(piece_value + center_bonus)

\* "Mobility evaluation"
mobility_term(s, heuristics) ==
    IF Abs(heuristics.mobility_weight) > 0
    THEN heuristics.mobility_weight
            * (mobility(s, s.current_player) - mobility(s, opponent(s.current_player)))
    ELSE 0

\* (round / 50).min(1.0) cubed, times KOTH_MAX_URGENCY; exact below round 7,
\* where the term is dropped, and from round 50 on
urgency(s) ==
    IF s.round >= KOTH_ROUND_LIMIT THEN KOTH_MAX_URGENCY
    ELSE (s.round * s.round * s.round * KOTH_MAX_URGENCY)
            \div (KOTH_ROUND_LIMIT * KOTH_ROUND_LIMIT * KOTH_ROUND_LIMIT)

\* "King-of-the-hill urgency"
koth_term(s) ==
    LET my_king_pos == IF s.current_player = "White"
                       THEN s.white_king_pos ELSE s.black_king_pos
        opp_king_pos == IF s.current_player = "White"
                        THEN s.black_king_pos ELSE s.white_king_pos
    IN IF urgency(s) > 10
       THEN CASE my_king_pos # None /\ opp_king_pos # None ->
                     urgency(s) * (distance_to_center(opp_king_pos)
                                     - distance_to_center(my_king_pos))
              [] my_king_pos # None /\ opp_king_pos = None -> urgency(s) * 4
              [] my_king_pos = None /\ opp_king_pos # None -> -(urgency(s) * 4)
              [] my_king_pos = None /\ opp_king_pos = None -> 0
       ELSE 0

evaluate(s, heuristics) ==
    CASE s.result = "WhiteWins" ->
            IF s.current_player = "White" THEN WIN_VALUE ELSE -WIN_VALUE
      [] s.result = "BlackWins" ->
            IF s.current_player = "Black" THEN WIN_VALUE ELSE -WIN_VALUE
      [] s.result = "Ongoing" ->
            SumOf([hex \in DOMAIN s.board |-> piece_term(s, heuristics, hex)])
                + mobility_term(s, heuristics) + koth_term(s)

\* variant: the bonus is taken from a win and given to a loss
with_depth_bonus_subtracting(s, base_score, depth) ==
    IF s.result = "Ongoing" THEN base_score
    ELSE IF base_score > 0 THEN base_score - depth * 100
    ELSE base_score + depth * 100

\* base_score with the depth bonus of a decided game
with_depth_bonus(s, base_score, depth) ==
    IF s.result = "Ongoing" THEN base_score
    ELSE IF base_score > 0 THEN base_score + depth * 100
    ELSE base_score - depth * 100

evaluate_with_depth(s, heuristics, depth) ==
    with_depth_bonus(s, evaluate(s, heuristics), depth)

(***************************************************************************)
(* ai.rs.  Scores are in hundredths, as in eval.rs.                        *)
(***************************************************************************)
NULL_MOVE_R == 2

LMR_MOVE_THRESHOLD == 3

LMR_DEPTH_THRESHOLD == 2

NOISE_SCALE == 10

\* f32::INFINITY; f32::NEG_INFINITY is -INFINITY
INFINITY == 1000000000

\* x + e in f32: an infinity stays what it is
AddF(x, e) == IF Abs(x) = INFINITY THEN x ELSE x + e

Max(a, b) == IF a >= b THEN a ELSE b

\* usize::min
Min(a, b) == IF a <= b THEN a ELSE b

\* The values rng.gen::<f32>() yields one after the other, in hundredths,
\* for each seed the generator may be made from; a stream is read in a cycle.
RngStreams == << <<50>>, <<0, 90>>, <<90, 0, 50, 20>> >>

\* ChaCha8Rng::seed_from_u64(seed)
seed_from_u64(seed) == [seed |-> seed, at |-> 0]

\* (rng.gen::<f32>() - 0.5) * noise_scale
noise(rng, noise_scale) ==
    ((RngStreams[rng.seed][rng.at + 1] - 50) * noise_scale) \div 100

\* the generator after one draw
drawn(rng) == [rng EXCEPT !.at = (rng.at + 1) % Len(RngStreams[rng.seed])]

\* The orders in which the FxHashMap of the board may yield its hexes: by
\* rising or by falling 9 q + r.
HashOrders == {"Rising", "Falling"}

hash_rank(hex, order) ==
    IF order = "Rising" THEN 9 * (hex[1] + BOARD_RADIUS) + (hex[2] + BOARD_RADIUS)
    ELSE 9 * (BOARD_RADIUS - hex[1]) + (BOARD_RADIUS - hex[2])

\* The place of a move in the Vec that legal_moves() returns: Pass,
\* Surrender, then piece by piece in the order of the map (destinations by
\* direction and step or by place on the ring, rotations by facing, swaps
\* by the order of the map), then the Rebirth moves by direction and facing.
vec_rank(s, mv, order) ==
    CASE mv.kind = "Pass" -> 0
      [] mv.kind = "Surrender" -> 1
      [] mv.kind = "Movement" ->
            LET piece == s.board[mv.from]
                pt == get_piece_type(piece.piece_type)
            IN 2 + 1000 * hash_rank(mv.from, order)
                 + (IF pt.move_type = "Jump"
                    THEN LET at == CHOOSE x \in (0..5) \X (0..(pt.move_range - 1)) :
                                     mv.to = <<mv.from[1] + pt.move_range * DIRECTIONS[((x[1] + 4) % 6) + 1][1]
                                                   + x[2] * DIRECTIONS[x[1] + 1][1],
                                               mv.from[2] + pt.move_range * DIRECTIONS[((x[1] + 4) % 6) + 1][2]
                                                   + x[2] * DIRECTIONS[x[1] + 1][2]>>
                         IN at[1] * pt.move_range + at[2]
                    ELSE LET at == CHOOSE x \in (0..5) \X (1..(2 * BOARD_RADIUS + 1)) :
                                     /\ has_direction(pt.directions, x[1])
                                     /\ mv.to = Walk(mv.from, direction_vector(piece.facing, x[1]), x[2])
                         IN 20 * at[1] + at[2])
      [] mv.kind = "Rotate" -> 2 + 1000 * hash_rank(mv.from, order) + 400 + mv.new_facing
      [] mv.kind = "Swap" ->
            2 + 1000 * hash_rank(mv.from, order) + 500 + hash_rank(mv.to, order)
      [] mv.kind = "Rebirth" ->
            LET king_pos == IF s.current_player = "White"
                            THEN s.white_king_pos ELSE s.black_king_pos
            IN 100000 + mv.new_facing
                 + 6 * (CHOOSE i \in 1..6 :
                          mv.to = <<king_pos[1] + DIRECTIONS[i][1], king_pos[2] + DIRECTIONS[i][2]>>)

\* "Capture bonus (MVV - Most Valuable Victim)"
capture_bonus(s, mv, heuristics) ==
    IF mv.to \in DOMAIN s.board /\ s.board[mv.to].owner # s.current_player
    THEN (IF is_king(s.board[mv.to]) THEN WIN_VALUE
          ELSE heuristics.piece_values[s.board[mv.to].piece_type + 1]) * 10
    ELSE 0

\* "Center proximity bonus"
center_bonus(mv) ==
    (distance_to_center(mv.from) - distance_to_center(mv.to)) * 50

\* variant: Pass and Surrender change places
move_score_pass_last(s, mv, heuristics) ==
    CASE mv.kind = "Pass" -> -5000000
      [] mv.kind = "Surrender" -> -100000
      [] mv.kind = "Swap" -> 5000
      [] mv.kind = "Rotate" -> 0
      [] mv.kind = "Rebirth" -> 4000
      [] mv.kind = "Movement" -> capture_bonus(s, mv, heuristics) + center_bonus(mv)

move_score(s, mv, heuristics) ==
    CASE mv.kind = "Pass" -> -100000
      [] mv.kind = "Surrender" -> -5000000
      [] mv.kind = "Swap" -> 5000
      [] mv.kind = "Rotate" -> 0
      [] mv.kind = "Rebirth" -> 4000
      [] mv.kind = "Movement" -> capture_bonus(s, mv, heuristics) + center_bonus(mv)

is_capture_move(s, mv) ==
    /\ mv.kind = "Movement"
    /\ mv.to \in DOMAIN s.board
    /\ s.board[mv.to].owner # s.current_player

is_in_danger(s) ==
    LET king_pos == IF s.current_player = "White"
                    THEN s.white_king_pos ELSE s.black_king_pos
    IN IF king_pos = None THEN TRUE
       ELSE \E pos \in DOMAIN s.board :
               /\ s.board[pos].owner # s.current_player
               /\ distance_to(pos, king_pos) <= 3

\* the loop of make_null_move: Pass until the turn changes or no move is left
RECURSIVE pass_until_turn_changes(_, _)
pass_until_turn_changes(new_state, player) ==
    IF legal_moves(new_state) = {} \/ new_state.current_player # player
    THEN new_state
    ELSE pass_until_turn_changes(apply_move(new_state, Pass), player)

\* variant: the null state keeps the round number of the searched state
make_null_move_keeping_round(s) ==
    [pass_until_turn_changes(s, s.current_player) EXCEPT !.round = s.round]

make_null_move(s) == pass_until_turn_changes(s, s.current_player)

\* moves.sort_by(descending move_score): a stable sort, so moves of equal
\* score keep the order of the Vec.  keyed holds <<move, score, vec_rank>>.
RECURSIVE sorted_by_score(_)
sorted_by_score(keyed) ==
    IF keyed = {} THEN <<>>
    ELSE LET first == CHOOSE a \in keyed :
                        \A b \in keyed : a[2] > b[2] \/ (a[2] = b[2] /\ a[3] <= b[3])
         IN <<first[1]>> \o sorted_by_score(keyed \ {first})

\* Vec::truncate
Truncate(seq, n) == IF Len(seq) > n THEN SubSeq(seq, 1, n) ELSE seq

\* moves, which is what legal_moves() returned, sorted and truncated to
\* max_moves
ordered_moves(s, moves, heuristics, max_moves, order) ==
    Truncate(sorted_by_score({<<mv, move_score(s, mv, heuristics), vec_rank(s, mv, order)>> :
                                 mv \in moves}),
             max_moves)

\* negamax and the loops of negamax and get_best_move.  cx holds what every
\* call hands on unchanged: heuristics, max_moves, noise_scale, and the
\* order of the board's map.  Each returns <<score, rng>>, the generator
\* as the call leaves it.
RECURSIVE negamax(_, _, _, _, _, _, _)
RECURSIVE search_moves(_, _, _, _, _, _, _, _, _, _)
RECURSIVE pick_best(_, _, _, _, _, _, _, _)

Negated(r) == <<-r[1], r[2]>>

\* variant: Surrender is scored as a loss at the same depth
surrender_score_as_loss(depth) == -WIN_VALUE - depth * 100

\* "Surrender scores slightly better than immediate loss":
\* -WIN_VALUE - depth as f32 + 0.5
surrender_score(depth) == -WIN_VALUE - depth * 100 + 50

\* "Re-search at full depth if LMR found promising move"; first is the
\* result of the first search of the child
lmr_research(child, use_lmr, depth, alpha, beta, cx, first) ==
    IF use_lmr /\ -first[1] > alpha
    THEN Negated(negamax(child, depth - 1, -beta, -alpha, cx, first[2], TRUE))
    ELSE Negated(first)

\* the score of one move in the loop of negamax; child is the state after it
move_result(state, mv, child, move_index, depth, alpha, beta, cx, rng, allow_null_move) ==
    LET turn_changed == child.current_player # state.current_player
        use_lmr == /\ turn_changed
                   /\ move_index >= LMR_MOVE_THRESHOLD
                   /\ depth >= LMR_DEPTH_THRESHOLD
                   /\ ~is_capture_move(state, mv)
    IN IF mv.kind = "Surrender" THEN <<surrender_score(depth), rng>>
       ELSE IF turn_changed
       THEN lmr_research(child, use_lmr, depth, alpha, beta, cx,
                         negamax(child, IF use_lmr THEN depth - 2 ELSE depth - 1,
                                 -beta, -alpha, cx, rng, TRUE))
       ELSE negamax(child, depth, alpha, beta, cx, rng, allow_null_move)

\* best = best.max(score); alpha = alpha.max(score); break on alpha >= beta
after_move(state, moves, move_index, depth, alpha, beta, best, cx, allow_null_move, r) ==
    IF Max(alpha, r[1]) >= beta THEN <<Max(best, r[1]), r[2]>>
    ELSE search_moves(state, moves, move_index + 1, depth, Max(alpha, r[1]), beta,
                      Max(best, r[1]), cx, r[2], allow_null_move)

\* the loop over moves[move_index..]
search_moves(state, moves, move_index, depth, alpha, beta, best, cx, rng, allow_null_move) ==
    IF move_index >= Len(moves) THEN <<best, rng>>
    ELSE after_move(state, moves, move_index, depth, alpha, beta, best, cx, allow_null_move,
                    move_result(state, moves[move_index + 1],
                                IF moves[move_index + 1].kind = "Surrender" THEN state
                                ELSE apply_move(state, moves[move_index + 1]),
                                move_index, depth, alpha, beta, cx, rng, allow_null_move))

\* "Null-move pruning"; moves is sorted, null is the result of the search
\* of the null state
after_null_move(state, moves, depth, alpha, beta, cx, allow_null_move, null) ==
    IF -null[1] >= beta THEN <<beta, null[2]>>
    ELSE search_moves(state, moves, 0, depth, alpha, beta, -INFINITY, cx, null[2],
                      allow_null_move)

\* negamax from the null-move pruning on; moves is sorted, null_state is
\* what make_null_move returns
search_sorted(state, moves, null_state, depth, alpha, beta, cx, rng, allow_null_move) ==
    IF /\ allow_null_move
       /\ depth >= NULL_MOVE_R + 1
       /\ ~is_in_danger(state)
       /\ null_state.current_player # state.current_player
    THEN after_null_move(state, moves, depth, alpha, beta, cx, allow_null_move,
                         negamax(null_state, depth - 1 - NULL_MOVE_R,
                                 -beta, AddF(-beta, 1), cx, rng, FALSE))
    ELSE search_moves(state, moves, 0, depth, alpha, beta, -INFINITY, cx, rng,
                      allow_null_move)

\* negamax of an undecided state; moves is what legal_moves() returned
search_ongoing(state, moves, depth, alpha, beta, cx, rng, allow_null_move) ==
    IF depth <= 0 \/ moves = {}
    THEN <<evaluate(state, cx.heuristics) + noise(rng, cx.noise_scale), drawn(rng)>>
    ELSE search_sorted(state,
                       ordered_moves(state, moves, cx.heuristics, cx.max_moves, cx.order),
                       make_null_move(state),
                       depth, alpha, beta, cx, rng, allow_null_move)

negamax(state, depth, alpha, beta, cx, rng, allow_null_move) ==
    IF state.result # "Ongoing"
    THEN <<evaluate_with_depth(state, cx.heuristics, depth), rng>>
    ELSE search_ongoing(state, legal_moves(state), depth, alpha, beta, cx, rng,
                        allow_null_move)

\* the score of one move in the loop of get_best_move
root_result(state, mv, child, depth, cx, rng) ==
    IF mv.kind = "Surrender" THEN <<surrender_score(depth), rng>>
    ELSE IF child.current_player # state.current_player
    THEN Negated(negamax(child, depth - 1, -INFINITY, INFINITY, cx, rng, TRUE))
    ELSE negamax(child, depth, -INFINITY, INFINITY, cx, rng, TRUE)

\* variant: the last of the moves of equal score is kept
keep_best_last_of_equals(state, moves, i, depth, cx, best_move, best_score, r) ==
    IF r[1] >= best_score
    THEN pick_best(state, moves, i + 1, depth, cx, moves[i], r[1], r[2])
    ELSE pick_best(state, moves, i + 1, depth, cx, best_move, best_score, r[2])

\* "if score > best_score": r is the score of moves[i] and the generator
keep_best(state, moves, i, depth, cx, best_move, best_score, r) ==
    IF r[1] > best_score
    THEN pick_best(state, moves, i + 1, depth, cx, moves[i], r[1], r[2])
    ELSE pick_best(state, moves, i + 1, depth, cx, best_move, best_score, r[2])

\* the loop of get_best_move over moves[i..]: <<best_move, rng>>
pick_best(state, moves, i, depth, cx, best_move, best_score, rng) ==
    IF i > Len(moves) THEN <<best_move, rng>>
    ELSE keep_best(state, moves, i, depth, cx, best_move, best_score,
                   root_result(state, moves[i],
                               IF moves[i].kind = "Surrender" THEN state
                               ELSE apply_move(state, moves[i]),
                               depth, cx, rng))

\* get_best_move from the sort on; moves is sorted
best_of_sorted(state, moves, depth, cx, rng) ==
    pick_best(state, moves, 1, depth, cx, moves[1], -INFINITY, rng)

\* get_best_move once legal_moves() has returned moves
best_of_moves(state, moves, depth, cx, rng) ==
    IF moves = {} THEN <<NoMove, rng>>
    ELSE IF Cardinality(moves) = 1 THEN <<CHOOSE mv \in moves : TRUE, rng>>
    ELSE best_of_sorted(state,
                        ordered_moves(state, moves, cx.heuristics, cx.max_moves, cx.order),
                        depth, cx, rng)

\* <<Option<Move>, rng>>; order is the order of the board's map
get_best_move(state, depth, heuristics, max_moves, rng, noise_scale, order) ==
    best_of_moves(state, legal_moves(state), depth,
                  [heuristics |-> heuristics, max_moves |-> max_moves,
                   noise_scale |-> noise_scale, order |-> order],
                  rng)

\* AlphaBetaAI::new / with_seed
AlphaBetaAI(depth, heuristics, seed) ==
    [depth |-> depth, max_moves_per_action |-> 15, heuristics |-> heuristics,
     rng |-> seed_from_u64(seed)]

\* AlphaBetaAI::best_move
best_move(ai_player, state, order) ==
    get_best_move(state, ai_player.depth, ai_player.heuristics,
                  ai_player.max_moves_per_action, ai_player.rng, NOISE_SCALE, order)

(***************************************************************************)
(* ruleset.rs and hexwar-evolve.  A RuleSet holds its two armies as the    *)
(* records white and black: white.pieces is white_pieces, white.king is    *)
(* white_king, and so on.  A random generator is a stream of raw values    *)
(* read in a cycle; every function that draws returns the generator it     *)
(* leaves behind together with its result.                                 *)
(***************************************************************************)
Army(king, pieces, positions, facings, template) ==
    [king |-> king, pieces |-> pieces, positions |-> positions,
     facings |-> facings, template |-> template]

\* RuleSet::default()
DefaultRuleSet ==
    [name |-> "default",
     white |-> Army(25, <<1, 1, 1, 1>>,
                    << <<0, 3>>, <<-1, 3>>, <<1, 2>>, <<-2, 4>>, <<2, 1>> >>,
                    <<0, 0, 0, 0, 0>>, "E"),
     black |-> Army(25, <<1, 1, 1, 1>>,
                    << <<0, -3>>, <<1, -3>>, <<-1, -2>>, <<2, -4>>, <<-2, -1>> >>,
                    <<3, 3, 3, 3, 3>>, "E")]

\* the first raw values a generator yields: one for each mutation of
\* both_side_mutations(), as a threshold in halves
FirstDraws == <<1, 5, 9, 11, 13, 17, 19, 21, 23, 25, 29, 33, 35, 37, 41, 43, 45, 47>>

\* the raw values that follow
LaterDraws == << <<0, 21>>, <<0, 22>>, <<22, 1>>, <<5, 3>>, <<3, 20>> >>

\* the raw values each generator yields one after the other
RawStreams ==
    [i \in 1..(Len(FirstDraws) * Len(LaterDraws)) |->
        <<FirstDraws[((i - 1) % Len(FirstDraws)) + 1]>>
            \o LaterDraws[((i - 1) \div Len(FirstDraws)) + 1]]

\* the generator made from a seed
from_seed(seed) == [seed |-> seed, at |-> 0]

\* the raw value of the next draw
raw(rng) == RawStreams[rng.seed][rng.at + 1]

\* the generator after n draws
after(rng, n) == [rng EXCEPT !.at = (rng.at + n) % Len(RawStreams[rng.seed])]

\* rng.gen_range(low..high)
gen_range(rng, low, high) == low + (raw(rng) % (high - low))

\* rng.gen::<f32>(), in hundredths
gen_f32(rng) == raw(rng) % 100

\* rng.gen_bool(0.5)
gen_bool(rng) == raw(rng) % 2 = 0

\* Vec::contains
Contains(seq, x) == \E i \in 1..Len(seq) : seq[i] = x

\* Vec::remove(idx) and Vec::swap(i, j), indices from 0
RemoveAt(seq, idx) == SubSeq(seq, 1, idx) \o SubSeq(seq, idx + 2, Len(seq))

SwapAt(seq, i, j) == [seq EXCEPT ![i + 1] = seq[j + 1], ![j + 1] = seq[i + 1]]

REGULAR_PIECE_IDS == [i \in 1..25 |-> i - 1]

KING_IDS == <<25, 26, 27, 28, 29>>

WARPER_ID == 21

SHIFTER_ID == 22

MIN_PIECES == 8

MAX_PIECES == 15

\* white_piece_zone() / black_piece_zone(): rows r = 1..3 or -3..-1, in each
\* row q = -4..4, the valid hexes but the king's
piece_zone(side) ==
    LET first_row == IF side = "white" THEN 1 ELSE -3
        king_pos == IF side = "white" THEN <<0, 3>> ELSE <<0, -3>>
        in_zone(hex) == is_valid(hex) /\ hex # king_pos
    IN SelectSeq([i \in 1..27 |-> <<((i - 1) % 9) - 4, first_row + ((i - 1) \div 9)>>],
                 in_zone)

\* white_only_mutations() / black_only_mutations(): the mutations of a side
\* with their weights
side_mutations(side) ==
    << [op |-> "add", side |-> side, weight |-> 2],
       [op |-> "add_copy", side |-> side, weight |-> 2],
       [op |-> "remove", side |-> side, weight |-> 1],
       [op |-> "swap", side |-> side, weight |-> 1],
       [op |-> "swap_existing", side |-> side, weight |-> 2],
       [op |-> "change_king", side |-> side, weight |-> 1],
       [op |-> "shuffle_positions", side |-> side, weight |-> 1],
       [op |-> "swap_two_positions", side |-> side, weight |-> 1],
       [op |-> "rotate", side |-> side, weight |-> 1] >>

\* variant: both halves whatever the side
mutations_for_any_side(side) ==
    side_mutations("white") \o side_mutations("black")

\* "Build mutation weights based on config"
mutations_for(side) ==
    CASE side = "White" -> side_mutations("white")
      [] side = "Black" -> side_mutations("black")
      [] side = "Both" -> side_mutations("white") \o side_mutations("black")

RECURSIVE total_weight(_)
total_weight(mutations) ==
    IF mutations = <<>> THEN 0
    ELSE Head(mutations).weight + total_weight(Tail(mutations))

\* "Choose mutation type": threshold is counted in halves
RECURSIVE selected_mutation(_, _)
selected_mutation(mutations, threshold) ==
    IF mutations = <<>> THEN [op |-> "", side |-> "", weight |-> 0]
    ELSE IF threshold - 2 * Head(mutations).weight <= 0 THEN Head(mutations)
    ELSE selected_mutation(Tail(mutations), threshold - 2 * Head(mutations).weight)

\* the army without the piece at idx of pieces: the king is at index 0 of
\* positions and facings, the pieces start at index 1
without_piece(army, idx) ==
    [army EXCEPT
        !.pieces = RemoveAt(@, idx),
        !.positions = IF idx + 1 < Len(@) THEN RemoveAt(@, idx + 1) ELSE @,
        !.facings = IF idx + 1 < Len(@) THEN RemoveAt(@, idx + 1) ELSE @]

\* add_piece_white / add_piece_black
add_piece(rs, side, rng, copy_existing) ==
    LET army == rs[side]
        free(hex) == ~Contains(army.positions, hex)
        available == SelectSeq(piece_zone(side), free)
        piece == IF copy_existing /\ army.pieces # <<>>
                 THEN army.pieces[gen_range(rng, 0, Len(army.pieces)) + 1]
                 ELSE REGULAR_PIECE_IDS[gen_range(rng, 0, Len(REGULAR_PIECE_IDS)) + 1]
        pos == available[gen_range(after(rng, 1), 0, Len(available)) + 1]
    IN IF available = <<>> THEN <<rs, rng>>
       ELSE <<[rs EXCEPT ![side] =
                  [army EXCEPT !.pieces = Append(@, piece),
                               !.positions = Append(@, pos),
                               !.facings = Append(@, IF side = "white" THEN 0 ELSE 3)]],
              after(rng, 2)>>

\* remove_piece_white / remove_piece_black
remove_piece(rs, side, rng) ==
    IF rs[side].pieces = <<>> THEN <<rs, rng>>
    ELSE <<[rs EXCEPT ![side] = without_piece(@, gen_range(rng, 0, Len(rs[side].pieces)))],
           after(rng, 1)>>

\* swap_piece_white / swap_piece_black
swap_piece(rs, side, rng, use_existing) ==
    LET pieces == rs[side].pieces
        idx == gen_range(rng, 0, Len(pieces))
        new_piece ==
            IF use_existing /\ Len(pieces) >= 2
            THEN pieces[((idx + 1 + gen_range(after(rng, 1), 0, Len(pieces) - 1))
                            % Len(pieces)) + 1]
            ELSE REGULAR_PIECE_IDS[gen_range(after(rng, 1), 0, Len(REGULAR_PIECE_IDS)) + 1]
    IN IF pieces = <<>> THEN <<rs, rng>>
       ELSE <<[rs EXCEPT ![side].pieces[idx + 1] = new_piece], after(rng, 2)>>

\* one round of the loop of shuffle_positions, j drawn from 1..=i
shuffled_at(positions, facings, i, j) ==
    <<SwapAt(positions, i, j),
      IF i < Len(facings) /\ j < Len(facings) THEN SwapAt(facings, i, j) ELSE facings>>

\* the loop of shuffle_positions from i down to 2: <<positions, facings, rng>>
RECURSIVE shuffle_from(_, _, _, _)
shuffle_from(positions, facings, i, rng) ==
    IF i < 2 THEN <<positions, facings, rng>>
    ELSE shuffle_from(shuffled_at(positions, facings, i, gen_range(rng, 1, i + 1))[1],
                      shuffled_at(positions, facings, i, gen_range(rng, 1, i + 1))[2],
                      i - 1, after(rng, 1))

shuffle_positions(positions, facings, rng) ==
    IF Len(positions) <= 2 THEN <<positions, facings, rng>>
    ELSE shuffle_from(positions, facings, Len(positions) - 1, rng)

swap_two_positions(positions, facings, rng) ==
    LET n == Len(positions)
        i == gen_range(rng, 1, n)
        j == ((i + 1 + gen_range(after(rng, 1), 0, n - 2)) % (n - 1)) + 1
    IN IF n < 3 THEN <<positions, facings, rng>>
       ELSE <<shuffled_at(positions, facings, i, j)[1],
              shuffled_at(positions, facings, i, j)[2],
              after(rng, 2)>>

\* <<facings, rng>>
rotate_piece(facings, rng) ==
    LET idx == gen_range(rng, 1, Len(facings))
        drawn_rotation == gen_range(after(rng, 1), 0, 4)
        rotation == CASE drawn_rotation = 0 -> 1
                      [] drawn_rotation = 1 -> 2
                      [] drawn_rotation = 2 -> -1
                      [] OTHER -> -2
    IN IF Len(facings) <= 1 THEN <<facings, rng>>
       ELSE <<[facings EXCEPT ![idx + 1] = (@ + rotation) % 6], after(rng, 2)>>

\* the ruleset with the positions and facings of a side replaced by r[1],
\* r[2], and the generator r[3]
with_positions(rs, side, r) ==
    <<[rs EXCEPT ![side].positions = r[1], ![side].facings = r[2]], r[3]>>

\* <<ruleset, rng>>
apply_mutation(rs, mutation, rng) ==
    LET side == mutation.side
        unchanged == <<rs, rng>>
    IN CASE mutation.op = "add" ->
               IF Len(rs[side].pieces) < MAX_PIECES
               THEN add_piece(rs, side, rng, FALSE) ELSE unchanged
         [] mutation.op = "add_copy" ->
               IF Len(rs[side].pieces) < MAX_PIECES /\ rs[side].pieces # <<>>
               THEN add_piece(rs, side, rng, TRUE) ELSE unchanged
         [] mutation.op = "remove" ->
               IF Len(rs[side].pieces) > MIN_PIECES
               THEN remove_piece(rs, side, rng) ELSE unchanged
         [] mutation.op = "swap" ->
               IF rs[side].pieces # <<>>
               THEN swap_piece(rs, side, rng, FALSE) ELSE unchanged
         [] mutation.op = "swap_existing" ->
               IF Len(rs[side].pieces) >= 2
               THEN swap_piece(rs, side, rng, TRUE) ELSE unchanged
         [] mutation.op = "change_king" ->
               <<[rs EXCEPT ![side].king = KING_IDS[gen_range(rng, 0, Len(KING_IDS)) + 1]],
                 after(rng, 1)>>
         [] mutation.op = "shuffle_positions" ->
               with_positions(rs, side,
                              shuffle_positions(rs[side].positions, rs[side].facings, rng))
         [] mutation.op = "swap_two_positions" ->
               with_positions(rs, side,
                              swap_two_positions(rs[side].positions, rs[side].facings, rng))
         [] mutation.op = "rotate" ->
               <<[rs EXCEPT ![side].facings = rotate_piece(rs[side].facings, rng)[1]],
                 rotate_piece(rs[side].facings, rng)[2]>>
         [] OTHER -> unchanged

\* the army holds a Warper and a Shifter
has_warper_and_shifter(army) ==
    Contains(army.pieces, WARPER_ID) /\ Contains(army.pieces, SHIFTER_ID)

\* one half of enforce_warper_shifter_constraint: the first Shifter goes
without_first_shifter(army) ==
    IF has_warper_and_shifter(army)
    THEN without_piece(army, (CHOOSE i \in 1..Len(army.pieces) :
                                 /\ army.pieces[i] = SHIFTER_ID
                                 /\ \A k \in 1..(i - 1) : army.pieces[k] # SHIFTER_ID) - 1)
    ELSE army

enforce_warper_shifter_constraint(rs) ==
    [rs EXCEPT !.white = without_first_shifter(@), !.black = without_first_shifter(@)]

\* <<ruleset, rng>>
\* "Choose mutation type"
chosen_mutation(weighted, rng) ==
    selected_mutation(weighted, gen_range(rng, 0, 2 * total_weight(weighted)))

mutate_ruleset(rs, config, rng) ==
    LET mutations == mutations_for(config.side)
        threshold == gen_range(rng, 0, 2 * total_weight(mutations))
        mutated == apply_mutation(rs, selected_mutation(mutations, threshold), after(rng, 1))
    IN <<enforce_warper_shifter_constraint(mutated[1]), mutated[2]>>

(***************************************************************************)
(* selection.rs, crossover.rs and lib.rs of hexwar-evolve.  An f32 fitness *)
(* is a record: a number v, or NaN.                                        *)
(***************************************************************************)
F32(v) == [nan |-> FALSE, v |-> v]

NaN == [nan |-> TRUE, v |-> 0]

\* a > b on f32: false when either is NaN
f32_gt(a, b) == ~a.nan /\ ~b.nan /\ a.v > b.v

\* f32::max: the other operand when one is NaN
f32_max(a, b) == IF a.nan THEN b ELSE IF b.nan THEN a ELSE IF a.v >= b.v THEN a ELSE b

\* make_test_ruleset(value) of the tests of lib.rs
make_test_ruleset(value) ==
    [name |-> "test",
     white |-> Army(25, <<value, value, value, value, 1, 1, 1, 1>>,
                    << <<0, 3>>, <<-1, 3>>, <<1, 2>>, <<-2, 3>>, <<2, 1>>,
                       <<-1, 2>>, <<1, 1>>, <<-2, 2>>, <<2, 2>> >>,
                    <<0, 0, 0, 0, 0, 0, 0, 0, 0>>, "E"),
     black |-> Army(25, <<1, 1, 1, 1, 1, 1, 1, 1>>,
                    << <<0, -3>>, <<1, -3>>, <<-1, -2>>, <<2, -3>>, <<-2, -1>>,
                       <<1, -2>>, <<-1, -1>>, <<2, -2>>, <<-2, -2>> >>,
                    <<3, 3, 3, 3, 3, 3, 3, 3, 3>>, "E")]

\* The fitness functions a run is given.  first_piece is that of
\* test_elitism_preserves_best, piece_sum that of
\* test_evolve_improves_fitness; first_piece_ratio is x * x / x for the
\* first white piece id x, which is 0.0 / 0.0 = NaN for x = 0.
FitnessFns == {"first_piece", "piece_sum", "first_piece_ratio"}

RECURSIVE SumSeq(_)
SumSeq(seq) == IF seq = <<>> THEN 0 ELSE Head(seq) + SumSeq(Tail(seq))

fitness_of(fitness_fn, rs) ==
    CASE fitness_fn = "first_piece" -> F32(rs.white.pieces[1])
      [] fitness_fn = "piece_sum" -> F32(SumSeq(rs.white.pieces))
      [] fitness_fn = "first_piece_ratio" ->
            IF rs.white.pieces[1] = 0 THEN NaN ELSE F32(rs.white.pieces[1])

\* population.iter().map(&fitness_fn).collect()
fitness_vec(fitness_fn, population) ==
    [i \in 1..Len(population) |-> fitness_of(fitness_fn, population[i])]

\* fitness.iter().cloned().fold(f32::NEG_INFINITY, f32::max)
RECURSIVE best_of(_)
best_of(fitness) ==
    IF fitness = <<>> THEN F32(-INFINITY)
    ELSE f32_max(best_of(SubSeq(fitness, 1, Len(fitness) - 1)), fitness[Len(fitness)])

\* sort_by(|&a, &b| fitness[b].partial_cmp(&fitness[a]).unwrap_or(Equal)) of
\* the indices: the sort of a short slice inserts one element after the
\* other, moving it left past every element it compares Less to; a
\* compares Less to b when fitness[b] < fitness[a], and never when either
\* is NaN.  insert_tail puts the index x into the sorted indices v.
RECURSIVE insert_tail(_, _, _)
insert_tail(v, x, fitness) ==
    IF v # <<>> /\ f32_gt(fitness[x + 1], fitness[v[Len(v)] + 1])
    THEN Append(insert_tail(SubSeq(v, 1, Len(v) - 1), x, fitness), v[Len(v)])
    ELSE Append(v, x)

\* the indices 0..n-1 sorted by falling fitness
RECURSIVE sorted_indices(_, _)
sorted_indices(fitness, n) ==
    IF n = 0 THEN <<>>
    ELSE insert_tail(sorted_indices(fitness, n - 1), n - 1, fitness)

\* variant: the last n indices of the sort
select_elite_from_the_end(fitness, n) ==
    LET indices == sorted_indices(fitness, Len(fitness))
    IN IF Len(indices) > n THEN SubSeq(indices, Len(indices) - n + 1, Len(indices))
       ELSE indices

select_elite(fitness, n) == Truncate(sorted_indices(fitness, Len(fitness)), n)

\* the loop of tournament_select from its round i on: <<best_idx, rng>>
RECURSIVE tournament_from(_, _, _, _, _)
tournament_from(fitness, i, tournament_size, best_idx, rng) ==
    IF i >= tournament_size THEN <<best_idx, rng>>
    ELSE IF f32_gt(fitness[gen_range(rng, 0, Len(fitness)) + 1], fitness[best_idx + 1])
    THEN tournament_from(fitness, i + 1, tournament_size,
                         gen_range(rng, 0, Len(fitness)), after(rng, 1))
    ELSE tournament_from(fitness, i + 1, tournament_size, best_idx, after(rng, 1))

\* <<ruleset, rng>>; the population is not empty and tournament_size > 0
tournament_select(population, fitness, tournament_size, rng) ==
    LET won == tournament_from(fitness, 1,
                               IF tournament_size < Len(population)
                               THEN tournament_size ELSE Len(population),
                               gen_range(rng, 0, Len(population)), after(rng, 1))
    IN <<population[won[1] + 1], won[2]>>

\* the five fields of one army of rs, cloned one after the other
faction(rs, side) ==
    Army(rs[side].king, rs[side].pieces, rs[side].positions, rs[side].facings,
         rs[side].template)

\* variant: the white positions and facings always come from b
crossover_rulesets_mixing_fields(a, b, rng) ==
    <<[name |-> "crossover",
       white |-> IF gen_bool(rng)
                 THEN Army(a.white.king, a.white.pieces, b.white.positions,
                           b.white.facings, a.white.template)
                 ELSE faction(b, "white"),
       black |-> IF gen_bool(after(rng, 1)) THEN faction(a, "black")
                 ELSE faction(b, "black")],
      after(rng, 2)>>

\* <<ruleset, rng>>
crossover_rulesets(a, b, rng) ==
    <<[name |-> "crossover",
       white |-> IF gen_bool(rng) THEN faction(a, "white") ELSE faction(b, "white"),
       black |-> IF gen_bool(after(rng, 1)) THEN faction(a, "black")
                 ELSE faction(b, "black")],
      after(rng, 2)>>

\* rng.gen_bool(p) for p of 0, 1/2 or 1, counted in halves
gen_bool_p(rng, p) == IF p = 2 THEN TRUE ELSE IF p = 0 THEN FALSE ELSE gen_bool(rng)

\* the generator after gen_bool(p): Bernoulli draws nothing for p = 1
after_gen_bool_p(rng, p) == IF p = 2 THEN rng ELSE after(rng, 1)

\* a loop "for i in 0..len" of crossover_piece_mix from i on: <<pieces, rng>>
RECURSIVE mix_pieces(_, _, _, _, _, _)
mix_pieces(pieces, other, i, len, mix_rate, rng) ==
    IF i >= len THEN <<pieces, rng>>
    ELSE mix_pieces(IF gen_bool_p(rng, mix_rate)
                    THEN [pieces EXCEPT ![i + 1] = other[i + 1]] ELSE pieces,
                    other, i + 1, len, mix_rate, after_gen_bool_p(rng, mix_rate))

\* "Kings: 50% chance each"; white and black are what the loops returned
mix_kings(a, b, white, black) ==
    <<[name |-> "crossover-mix",
       white |-> [a.white EXCEPT !.pieces = white[1],
                                 !.king = IF gen_bool(black[2]) THEN b.white.king ELSE @],
       black |-> [a.black EXCEPT !.pieces = black[1],
                                 !.king = IF gen_bool(after(black[2], 1))
                                          THEN b.black.king ELSE @]],
      after(black[2], 2)>>

\* the black loop of crossover_piece_mix; white is what the white loop
\* returned
mix_black(a, b, mix_rate, white) ==
    mix_kings(a, b, white,
              mix_pieces(a.black.pieces, b.black.pieces, 0,
                         Min(Len(a.black.pieces), Len(b.black.pieces)),
                         mix_rate, white[2]))

\* <<ruleset, rng>>
crossover_piece_mix(a, b, mix_rate, rng) ==
    mix_black(a, b, mix_rate,
              mix_pieces(a.white.pieces, b.white.pieces, 0,
                         Min(Len(a.white.pieces), Len(b.white.pieces)),
                         mix_rate, rng))

\* <<ruleset, rng>>
crossover_one_side(a, b, preserve_white, rng) ==
    IF preserve_white
    THEN <<[name |-> "crossover",
            white |-> faction(a, "white"),
            black |-> IF gen_bool(rng) THEN faction(a, "black") ELSE faction(b, "black")],
           after(rng, 1)>>
    ELSE <<[name |-> "crossover",
            white |-> IF gen_bool(rng) THEN faction(a, "white") ELSE faction(b, "white"),
            black |-> faction(a, "black")],
           after(rng, 1)>>

\* "Crossover or clone" of create_offspring; first is what the selection
\* of parent1 returned
crossover_or_clone(population, fitness, config, first) ==
    LET second == tournament_select(population, fitness, config.tournament_size,
                                    after(first[2], 1))
    IN IF gen_f32(first[2]) < config.crossover_rate
       THEN CASE config.evolve_side = "White" ->
                    crossover_one_side(first[1], second[1], FALSE, second[2])
              [] config.evolve_side = "Black" ->
                    crossover_one_side(first[1], second[1], TRUE, second[2])
              [] config.evolve_side = "Both" ->
                    crossover_rulesets(first[1], second[1], second[2])
       ELSE <<first[1], after(first[2], 1)>>

\* "Mutation" of create_offspring; offspring is <<ruleset, rng>>
maybe_mutated(offspring, config, mutation_config) ==
    IF gen_f32(offspring[2]) < config.mutation_rate
    THEN mutate_ruleset(offspring[1], mutation_config, after(offspring[2], 1))
    ELSE <<offspring[1], after(offspring[2], 1)>>

\* <<ruleset, rng>>
create_offspring(population, fitness, config, mutation_config, rng) ==
    maybe_mutated(crossover_or_clone(population, fitness, config,
                                     tournament_select(population, fitness,
                                                       config.tournament_size, rng)),
                  config, mutation_config)

\* the while loop of create_next_generation: <<next_gen, rng>>
RECURSIVE fill_with_offspring(_, _, _, _, _, _)
fill_with_offspring(next_gen, population, fitness, config, mutation_config, rng) ==
    IF Len(next_gen) >= config.population_size THEN <<next_gen, rng>>
    ELSE fill_with_offspring(
             Append(next_gen,
                    create_offspring(population, fitness, config, mutation_config, rng)[1]),
             population, fitness, config, mutation_config,
             create_offspring(population, fitness, config, mutation_config, rng)[2])

\* variant: the offspring are mutated on both sides
create_next_generation_mutating_both(population, fitness, config, rng) ==
    LET elite_indices == select_elite(fitness, config.elitism)
    IN fill_with_offspring([i \in 1..Len(elite_indices) |-> population[elite_indices[i] + 1]],
                           population, fitness, config,
                           [side |-> "Both", allow_template_mutation |-> FALSE],
                           rng)

\* <<next_gen, rng>>
create_next_generation(population, fitness, config, rng) ==
    LET elite_indices == select_elite(fitness, config.elitism)
    IN fill_with_offspring([i \in 1..Len(elite_indices) |-> population[elite_indices[i] + 1]],
                           population, fitness, config,
                           [side |-> config.evolve_side, allow_template_mutation |-> FALSE],
                           rng)

\* variant: a population that is too large stays as it is
RECURSIVE ensure_population_size_no_truncate(_, _, _)
ensure_population_size_no_truncate(population, target, rng) ==
    IF Len(population) < target
    THEN IF population = <<>>
         THEN ensure_population_size_no_truncate(<<DefaultRuleSet>>, target, rng)
         ELSE ensure_population_size_no_truncate(
                  Append(population, population[gen_range(rng, 0, Len(population)) + 1]),
                  target, after(rng, 1))
    ELSE <<population, rng>>

\* <<population, rng>>
RECURSIVE ensure_population_size(_, _, _)
ensure_population_size(population, target, rng) ==
    IF Len(population) < target
    THEN IF population = <<>>
         THEN ensure_population_size(<<DefaultRuleSet>>, target, rng)
         ELSE ensure_population_size(
                  Append(population, population[gen_range(rng, 0, Len(population)) + 1]),
                  target, after(rng, 1))
    ELSE <<Truncate(population, target), rng>>

\* sort_by_fitness: <<population, fitness>> in the order of the sorted indices
sort_by_fitness(population, fitness) ==
    LET indices == sorted_indices(fitness, Len(population))
    IN <<[i \in 1..Len(indices) |-> population[indices[i] + 1]],
         [i \in 1..Len(indices) |-> fitness[indices[i] + 1]]>>

(***************************************************************************)
(* Starting positions.  Each is an argument list of GameState::new and the *)
(* round the game stands at: new() starts at round 1, and round 50 with    *)
(* the same board, White to move, is what Pass-only play reaches.          *)
(***************************************************************************)
K1 == piece_id_to_index("K1")
A1 == piece_id_to_index("A1")
A3 == piece_id_to_index("A3")
D1 == piece_id_to_index("D1")
E1 == piece_id_to_index("E1")
W1 == piece_id_to_index("W1")
W2 == piece_id_to_index("W2")
P1 == piece_id_to_index("P1")
G1 == piece_id_to_index("G1")

\* kings two hexes apart, a pawn facing the enemy phoenix
SkirmishWhite == << <<K1, <<0, 1>>, 0>>, <<A1, <<1, 0>>, 0>> >>
SkirmishBlack == << <<K1, <<0, -1>>, 3>>, <<P1, <<1, -1>>, 3>> >>

\* a Shifter and pawns on each side
ShiftWhite == << <<K1, <<0, 3>>, 0>>, <<W2, <<1, 2>>, 0>>, <<A1, <<-1, 3>>, 0>>, <<A3, <<2, 1>>, 0>> >>
ShiftBlack == << <<K1, <<0, -3>>, 3>>, <<W2, <<-1, -2>>, 3>>, <<A1, <<1, -3>>, 3>> >>

\* a Warper next to its king
WarpWhite == << <<K1, <<0, 2>>, 0>>, <<W1, <<1, 1>>, 0>>, <<A1, <<-1, 2>>, 0>> >>
WarpBlack == << <<K1, <<0, -2>>, 3>>, <<A3, <<0, -1>>, 3>> >>

\* a knight, a pike and a ghost against a ghost and two pawns: the ghosts
\* touch each other, the white ghost touches a pawn, the knight's ring holds
\* a friend, a ghost and a pawn
MixedWhite == << <<K1, <<0, 3>>, 0>>, <<E1, <<0, 1>>, 0>>, <<D1, <<2, 1>>, 0>>, <<G1, <<-1, 0>>, 0>> >>
MixedBlack == << <<K1, <<0, -3>>, 3>>, <<G1, <<0, -1>>, 3>>, <<A1, <<2, -1>>, 3>>, <<A1, <<-2, 0>>, 3>> >>

Scenarios ==
    { <<SkirmishWhite, SkirmishBlack, "E", "E", 1>>,
      <<SkirmishWhite, SkirmishBlack, "E", "E", MAX_ROUNDS>>,
      <<ShiftWhite, ShiftBlack, "D", "D", 1>>,
      <<WarpWhite, WarpBlack, "A", "F", 1>>,
      <<WarpBlack, WarpWhite, "F", "A", 1>>,
      <<MixedWhite, MixedBlack, "B", "E", 1>>,
      <<MixedWhite, MixedBlack, "C", "E", 1>>,
      <<WarpWhite, WarpBlack, "F", "D", 1>>,
      <<WarpWhite, WarpBlack, "D", "E", 1>> }

(***************************************************************************)
(* The fitness function of the evolve command (hexwar-cli, evolve.rs).  An *)
(* f32 is a record as above, its number counted in thousandths; a count is *)
(* an integer.  The games are played by two AlphaBetaAI; a game is taken   *)
(* by its outcome: the result and the number of moves applied.             *)
(***************************************************************************)
\* 1.0
ONE == F32(1000)

\* n as f32
as_f32(n) == F32(n * ONE.v)

f32_add(a, b) == IF a.nan \/ b.nan THEN NaN ELSE F32(a.v + b.v)

f32_sub(a, b) == IF a.nan \/ b.nan THEN NaN ELSE F32(a.v - b.v)

f32_mul(a, b) == IF a.nan \/ b.nan THEN NaN ELSE F32((a.v * b.v) \div ONE.v)

\* a / b: 0.0 / 0.0 is NaN, x / 0.0 an infinity
f32_div(a, b) ==
    IF a.nan \/ b.nan THEN NaN
    ELSE IF b.v # 0 THEN F32((a.v * ONE.v) \div b.v)
    ELSE IF a.v = 0 THEN NaN
    ELSE IF a.v > 0 THEN F32(INFINITY) ELSE F32(-INFINITY)

f32_abs(a) == IF a.nan THEN NaN ELSE F32(Abs(a.v))

\* a >= b on f32: false when either is NaN
f32_ge(a, b) == ~a.nan /\ ~b.nan /\ a.v >= b.v

\* a < b on f32: false when either is NaN
f32_lt(a, b) == ~a.nan /\ ~b.nan /\ a.v < b.v

\* the tiers 2, 4, 6, ... up to d, and d
tiers_of(d) == {t \in 2..d : t % 2 = 0 \/ t = d}

\* the tiers as the sorted Vec
RECURSIVE sorted_tiers(_)
sorted_tiers(tiers) ==
    IF tiers = {} THEN <<>>
    ELSE <<CHOOSE t \in tiers : \A u \in tiers : t <= u>>
            \o sorted_tiers(tiers \ {CHOOSE t \in tiers : \A u \in tiers : t <= u})

MatchupSpec(depth1, depth2, num_games, weight) ==
    [depth1 |-> depth1, depth2 |-> depth2, num_games |-> num_games, weight |-> weight]

\* (n_games, weight_equal, weight_skill_1ply, weight_skill_2ply) of a tier
tier_weights(tier, is_target, base_games, reduced) ==
    IF reduced /\ is_target
    THEN <<base_games * 2, F32(1500), F32(1500), F32(2500)>>
    ELSE IF reduced \/ ~is_target
    THEN <<base_games,
           f32_add(F32(600), f32_div(as_f32(tier), as_f32(10))),
           f32_add(F32(800), f32_div(as_f32(tier), as_f32(10))),
           f32_add(F32(1200), f32_div(as_f32(tier), as_f32(10)))>>
    ELSE <<base_games,
           f32_add(f32_add(F32(600), f32_div(as_f32(tier), as_f32(10))), F32(300)),
           f32_add(f32_add(F32(800), f32_div(as_f32(tier), as_f32(10))), F32(300)),
           f32_add(f32_add(F32(1200), f32_div(as_f32(tier), as_f32(10))), F32(500))>>

\* variant: the 1-ply matchup is built for tier 2 as well
tier_matchups_from_tier_2(tier, w) ==
    <<MatchupSpec(tier, tier, w[1], w[2])>>
        \o (IF tier >= 2 THEN <<MatchupSpec(tier, tier - 1, w[1], w[3])>> ELSE <<>>)
        \o (IF tier >= 4 THEN <<MatchupSpec(tier, tier - 2, w[1], w[4])>> ELSE <<>>)

\* the matchups pushed for one tier; w is what tier_weights returned
tier_matchups(tier, w) ==
    <<MatchupSpec(tier, tier, w[1], w[2])>>
        \o (IF tier >= 3 THEN <<MatchupSpec(tier, tier - 1, w[1], w[3])>> ELSE <<>>)
        \o (IF tier >= 4 THEN <<MatchupSpec(tier, tier - 2, w[1], w[4])>> ELSE <<>>)

\* "for tier in tiers" from the i-th tier on
RECURSIVE matchups_of_tiers(_, _, _, _, _)
matchups_of_tiers(tiers, i, d, base_games, reduced) ==
    IF i > Len(tiers) THEN <<>>
    ELSE tier_matchups(tiers[i], tier_weights(tiers[i], tiers[i] = d, base_games, reduced))
            \o matchups_of_tiers(tiers, i + 1, d, base_games, reduced)

build_matchup_specs(depth, games_per_matchup, reduced) ==
    matchups_of_tiers(sorted_tiers(tiers_of(Max(depth, 2))), 1, Max(depth, 2),
                      games_per_matchup, reduced)

\* MatchupStats of run_matchup before its first game
new_matchup_stats(depth1, depth2) ==
    [deeper_depth |-> Max(depth1, depth2), shallower_depth |-> Min(depth1, depth2),
     deeper_wins |-> 0, shallower_wins |-> 0, draws |-> 0, games_played |-> 0,
     white_wins |-> 0, black_wins |-> 0, total_rounds |-> 0]

\* variant: the deeper side plays White in the games of odd index
white_depth_of_odd_deeper(stats, game_idx) ==
    IF game_idx % 2 = 1 THEN stats.deeper_depth ELSE stats.shallower_depth

\* the depth of White in the game of index game_idx
white_depth_of(stats, game_idx) ==
    IF game_idx % 2 = 0 THEN stats.deeper_depth ELSE stats.shallower_depth

\* the depth of Black in the game of index game_idx
black_depth_of(stats, game_idx) ==
    IF game_idx % 2 = 0 THEN stats.shallower_depth ELSE stats.deeper_depth

\* the body of the loop of run_matchup once the game of index game_idx has
\* ended with game_result after rounds moves
matchup_game(stats, game_idx, game_result, rounds) ==
    [stats EXCEPT
        !.total_rounds = @ + rounds,
        !.games_played = @ + 1,
        !.white_wins = IF game_result = "WhiteWins" THEN @ + 1 ELSE @,
        !.black_wins = IF game_result = "BlackWins" THEN @ + 1 ELSE @,
        !.draws = IF game_result = "Ongoing" THEN @ + 1 ELSE @,
        !.deeper_wins =
            IF \/ game_result = "WhiteWins"
                  /\ white_depth_of(stats, game_idx) = stats.deeper_depth
               \/ game_result = "BlackWins"
                  /\ black_depth_of(stats, game_idx) = stats.deeper_depth
            THEN @ + 1 ELSE @,
        !.shallower_wins =
            IF \/ game_result = "WhiteWins"
                  /\ white_depth_of(stats, game_idx) # stats.deeper_depth
               \/ game_result = "BlackWins"
                  /\ black_depth_of(stats, game_idx) # stats.deeper_depth
            THEN @ + 1 ELSE @]

\* MatchupStats::deeper_win_rate
deeper_win_rate(stats) ==
    IF stats.games_played = 0 THEN F32(0)
    ELSE f32_div(as_f32(stats.deeper_wins), as_f32(stats.games_played))

\* MatchupStats::white_win_rate
white_win_rate(stats) ==
    IF stats.white_wins + stats.black_wins = 0 THEN F32(500)
    ELSE f32_div(as_f32(stats.white_wins), as_f32(stats.white_wins + stats.black_wins))

\* the sum of a field of the stats of all matchups
RECURSIVE total_of(_, _)
total_of(all_matchups, field) ==
    IF all_matchups = <<>> THEN 0
    ELSE Head(all_matchups).stats[field] + total_of(Tail(all_matchups), field)

\* "1.0 + (gap as f32 - 1.0) * 0.5"
gap_weight(spec) ==
    f32_add(ONE, f32_mul(f32_sub(as_f32(Abs(spec.depth1 - spec.depth2)), ONE),
                         F32(500)))

\* the loop of "1. Skill Gradient" from the i-th matchup on:
\* <<weighted_sum, weight_total>>
RECURSIVE skill_sums(_, _, _, _)
skill_sums(all_matchups, i, weighted_sum, weight_total) ==
    IF i > Len(all_matchups) THEN <<weighted_sum, weight_total>>
    ELSE IF all_matchups[i].spec.depth1 # all_matchups[i].spec.depth2
    THEN skill_sums(all_matchups, i + 1,
                    f32_add(weighted_sum,
                            f32_mul(deeper_win_rate(all_matchups[i].stats),
                                    gap_weight(all_matchups[i].spec))),
                    f32_add(weight_total, gap_weight(all_matchups[i].spec)))
    ELSE skill_sums(all_matchups, i + 1, weighted_sum, weight_total)

\* sums is <<weighted_sum, weight_total>>
skill_gradient_of(sums) ==
    IF f32_gt(sums[2], F32(0)) THEN f32_div(sums[1], sums[2]) ELSE F32(500)

\* the matchups of equal depths
equal_depth(all_matchups) == SelectSeq(all_matchups, LAMBDA m : m.spec.depth1 = m.spec.depth2)

\* "(1.0 - (win_rate - 0.5).abs() * 2.0) * stats.games_played as f32"
balance_of(stats) ==
    f32_mul(f32_sub(ONE, f32_mul(f32_abs(f32_sub(white_win_rate(stats), F32(500))),
                                 as_f32(2))),
            as_f32(stats.games_played))

\* equal_depth_balance of the matchups of equal depths
RECURSIVE equal_depth_balance(_)
equal_depth_balance(equals) ==
    IF equals = <<>> THEN F32(0)
    ELSE f32_add(equal_depth_balance(SubSeq(equals, 1, Len(equals) - 1)),
                 balance_of(equals[Len(equals)].stats))

\* equals are the matchups of equal depths
color_fairness_of(equals) ==
    IF total_of(equals, "games_played") > 0
    THEN f32_div(equal_depth_balance(equals), as_f32(total_of(equals, "games_played")))
    ELSE F32(500)

avg_rounds_of(total_rounds, total_games) ==
    IF total_games > 0 THEN f32_div(as_f32(total_rounds), as_f32(total_games)) ELSE F32(0)

game_richness_of(avg_rounds) ==
    IF f32_lt(avg_rounds, as_f32(10)) THEN f32_div(avg_rounds, as_f32(10))
    ELSE IF f32_gt(avg_rounds, as_f32(60))
    THEN f32_max(f32_sub(ONE, f32_div(f32_sub(avg_rounds, as_f32(60)), as_f32(100))),
                 F32(500))
    ELSE ONE

decisiveness_of(draws_total, total_games) ==
    IF total_games > 0
    THEN f32_sub(ONE, f32_div(as_f32(draws_total), as_f32(total_games)))
    ELSE F32(500)

\* variant: the lowest band is not halved
skill_score_of_unscaled(skill_gradient) ==
    IF f32_ge(skill_gradient, F32(950)) THEN ONE
    ELSE IF f32_ge(skill_gradient, F32(900))
    THEN f32_add(F32(900), f32_mul(f32_sub(skill_gradient, F32(900)), as_f32(2)))
    ELSE IF f32_ge(skill_gradient, F32(800))
    THEN f32_add(F32(600), f32_mul(f32_sub(skill_gradient, F32(800)), as_f32(3)))
    ELSE IF f32_ge(skill_gradient, F32(650))
    THEN f32_add(F32(300), f32_mul(f32_sub(skill_gradient, F32(650)), as_f32(2)))
    ELSE f32_sub(skill_gradient, ONE)

\* "non-linear skill gradient penalty"
skill_score_of(skill_gradient) ==
    IF f32_ge(skill_gradient, F32(950)) THEN ONE
    ELSE IF f32_ge(skill_gradient, F32(900))
    THEN f32_add(F32(900), f32_mul(f32_sub(skill_gradient, F32(900)), as_f32(2)))
    ELSE IF f32_ge(skill_gradient, F32(800))
    THEN f32_add(F32(600), f32_mul(f32_sub(skill_gradient, F32(800)), as_f32(3)))
    ELSE IF f32_ge(skill_gradient, F32(650))
    THEN f32_add(F32(300), f32_mul(f32_sub(skill_gradient, F32(650)), as_f32(2)))
    ELSE f32_mul(skill_gradient, F32(500))

\* "0.40 * skill_score + 0.35 * color_fairness + 0.15 * game_richness +
\* 0.10 * decisiveness"
combined_fitness(skill_score, color_fairness, game_richness, decisiveness) ==
    f32_add(f32_add(f32_add(f32_mul(F32(400), skill_score),
                            f32_mul(F32(350), color_fairness)),
                    f32_mul(F32(150), game_richness)),
            f32_mul(F32(100), decisiveness))

\* "Penalty if one color never wins at equal depth": the loop over equals
RECURSIVE one_color_penalty(_, _)
one_color_penalty(fitness_now, equals) ==
    IF equals = <<>> THEN fitness_now
    ELSE one_color_penalty(IF Head(equals).stats.white_wins = 0
                              \/ Head(equals).stats.black_wins = 0
                           THEN f32_mul(fitness_now, F32(300)) ELSE fitness_now,
                           Tail(equals))

\* the two penalties
penalized(fitness_now, equals, skill_gradient) ==
    f32_mul(IF total_of(equals, "games_played") >= 4
            THEN one_color_penalty(fitness_now, equals) ELSE fitness_now,
            IF f32_lt(skill_gradient, F32(800)) THEN F32(500) ELSE ONE)

\* the fitness from the components on
fitness_from(skill_gradient, equals, total_rounds, total_games, draws_total) ==
    penalized(combined_fitness(skill_score_of(skill_gradient),
                               color_fairness_of(equals),
                               game_richness_of(avg_rounds_of(total_rounds, total_games)),
                               decisiveness_of(draws_total, total_games)),
              equals, skill_gradient)

\* MultiDepthResult.fitness once every matchup has been run
multi_depth_fitness(all_matchups) ==
    fitness_from(skill_gradient_of(skill_sums(all_matchups, 1, F32(0), F32(0))),
                 equal_depth(all_matchups),
                 total_of(all_matchups, "total_rounds"),
                 total_of(all_matchups, "games_played"),
                 total_of(all_matchups, "draws"))

\* EvalStats of evaluate_ruleset_detailed before its first game
new_eval_stats(games) ==
    [white_wins |-> 0, black_wins |-> 0, draws |-> 0, total_rounds |-> 0, games |-> games]

\* the body of the loop of evaluate_ruleset_detailed once a game has ended
eval_game(stats, game_result, rounds) ==
    [stats EXCEPT
        !.total_rounds = @ + rounds,
        !.white_wins = IF game_result = "WhiteWins" THEN @ + 1 ELSE @,
        !.black_wins = IF game_result = "BlackWins" THEN @ + 1 ELSE @,
        !.draws = IF game_result = "Ongoing" THEN @ + 1 ELSE @]

\* "balance * 0.5 + decisiveness * 0.3 + length_score * 0.2"
eval_stats_sum(balance, decisiveness, length_score) ==
    f32_add(f32_add(f32_mul(balance, F32(500)), f32_mul(decisiveness, F32(300))),
            f32_mul(length_score, F32(200)))

\* EvalStats::fitness
eval_stats_fitness(stats, max_rounds) ==
    eval_stats_sum(
        f32_sub(ONE, f32_mul(f32_abs(f32_sub(f32_div(as_f32(stats.white_wins),
                                                     as_f32(stats.games)),
                                             F32(500))),
                             as_f32(2))),
        f32_sub(ONE, f32_div(as_f32(stats.draws), as_f32(stats.games))),
        f32_max(f32_sub(ONE, f32_div(f32_div(as_f32(stats.total_rounds),
                                             as_f32(stats.games)),
                                     as_f32(max_rounds))),
                F32(0)))

(***************************************************************************)
(* match_play.rs of hexwar-tournament.  A u64 is the sequence of its four  *)
(* 16-bit limbs, the lowest first.                                         *)
(***************************************************************************)
\* the number of values of a limb
Limb == 2 ^ 16

\* n < 2^16 as u64
as_u64(n) == <<n, 0, 0, 0>>

\* u64::MAX
U64_MAX == <<Limb - 1, Limb - 1, Limb - 1, Limb - 1>>

\* the limbs of a sum, from the lowest on; carry is what is still to add
RECURSIVE add_limbs(_, _)
add_limbs(limbs, carry) ==
    IF limbs = <<>> THEN <<>>
    ELSE <<(Head(limbs) + carry) % Limb>>
            \o add_limbs(Tail(limbs), (Head(limbs) + carry) \div Limb)

\* a.wrapping_add(n as u64) for n < 2^16
wrapping_add(a, n) == add_limbs(a, n)

GameConfig(white_is_first, game_index) ==
    [white_is_first |-> white_is_first, game_index |-> game_index]

\* variant: the odd games have the first ruleset as White
prepare_game_configs_odd_first(games_per_pair) ==
    [k \in 1..games_per_pair |-> GameConfig((k - 1) % 2 = 1, k - 1)]

\* game_index is k - 1 for the k-th element
prepare_game_configs(games_per_pair) ==
    [k \in 1..games_per_pair |-> GameConfig((k - 1) % 2 = 0, k - 1)]

\* Option<u64>
SomeSeed(v) == [some |-> TRUE, value |-> v]

NoSeed == [some |-> FALSE, value |-> as_u64(0)]

\* ai_config.seed.unwrap_or(42)
base_seed_of(config) == IF config.seed.some THEN config.seed.value ELSE as_u64(42)

\* the seed of the AI of GameRunner::play_game: next_seed() for alpha-beta,
\* none for MCTS
ai_seed_of(config, seed_counter) ==
    IF config.player_type = "AlphaBeta" THEN SomeSeed(seed_counter) ELSE NoSeed

\* play_single_game, the game having ended with game_result in the round
\* rounds: GameOutcomeWithContext, with the ruleset whose white side plays
\* White, the seed given and the seed of the AI
play_single_game(config, gc, seed, game_result, rounds) ==
    [outcome |-> [result |-> game_result, rounds |-> rounds],
     first_ruleset_was_white |-> gc.white_is_first,
     white_from |-> IF gc.white_is_first THEN "white_ruleset" ELSE "black_ruleset",
     seed |-> seed,
     ai_seed |-> ai_seed_of(config, seed)]

\* the body of the map of execute_games
execute_game(config, gc, game_result, rounds) ==
    play_single_game(config, gc, wrapping_add(base_seed_of(config), gc.game_index),
                     game_result, rounds)

\* MatchResult::empty()
empty_match_result ==
    [white_wins |-> 0, black_wins |-> 0, draws |-> 0, avg_rounds |-> F32(0),
     games_played |-> 0]

\* the number of outcomes the first ruleset won (first TRUE) or lost
wins_of_first(outcomes, first) ==
    Cardinality({k \in 1..Len(outcomes) :
                    \/ /\ outcomes[k].outcome.result = "WhiteWins"
                       /\ outcomes[k].first_ruleset_was_white = first
                    \/ /\ outcomes[k].outcome.result = "BlackWins"
                       /\ outcomes[k].first_ruleset_was_white # first})

RECURSIVE total_rounds_of(_)
total_rounds_of(outcomes) ==
    IF outcomes = <<>> THEN 0
    ELSE Head(outcomes).outcome.rounds + total_rounds_of(Tail(outcomes))

aggregate_results(outcomes) ==
    [white_wins |-> wins_of_first(outcomes, TRUE),
     black_wins |-> wins_of_first(outcomes, FALSE),
     draws |-> Cardinality({k \in 1..Len(outcomes) :
                               outcomes[k].outcome.result = "Ongoing"}),
     avg_rounds |-> IF Len(outcomes) > 0
                    THEN f32_div(as_f32(total_rounds_of(outcomes)), as_f32(Len(outcomes)))
                    ELSE F32(0),
     games_played |-> Len(outcomes)]

\* variant: every game is recorded as played with the first ruleset as White
execute_game_parallel_first_white(config, gc, game_result, rounds) ==
    play_single_game(config, [gc EXCEPT !.white_is_first = TRUE],
                     wrapping_add(base_seed_of(config), gc.game_index),
                     game_result, rounds)

\* the body of the map of execute_games_parallel
execute_game_parallel(config, gc, game_result, rounds) ==
    play_single_game(config, gc, wrapping_add(base_seed_of(config), gc.game_index),
                     game_result, rounds)

\* collect() of the parallel iterator: the value of each task at its index
collect(tasks) ==
    [k \in 1..Len(tasks) |->
        (CHOOSE t \in {tasks[i] : i \in 1..Len(tasks)} : t.index = k).value]

\* execute_games: the games in the order of their configurations
execute_games(config, configs, ends) ==
    [k \in 1..Len(configs) |-> execute_game(config, configs[k], ends[k][1], ends[k][2])]

\* play_match, the games ending as ends says
play_match(config, n, ends) ==
    IF n = 0 THEN empty_match_result
    ELSE aggregate_results(execute_games(config, prepare_game_configs(n), ends))

(***************************************************************************)
(* The state machine: the fields of GameState, the move applied last, the  *)
(* state it was applied to, the number of moves applied, who chose the     *)
(* last move, and the AlphaBetaAI that plays.                              *)
(***************************************************************************)
VARIABLES board, white_king_pos, black_king_pos, current_player,
          white_template, black_template, action_index, last_piece_pos,
          round, result, white_phoenix_captured, black_phoenix_captured,
          last_move, prev, plies, last_by, ai

game_vars == <<board, white_king_pos, black_king_pos, current_player,
               white_template, black_template, action_index, last_piece_pos,
               round, result, white_phoenix_captured, black_phoenix_captured,
               last_move, prev, plies, last_by, ai>>

\* A run of evolve(): the population it was given, the population, the
\* fitness vector of the result, best_fitness_history, the configuration,
\* the fitness function, the generations done, the generator, and where
\* the run stands.
VARIABLES initial_population, population, fitness, best_fitness_history,
          config, fitness_fn, generation, rng, stage

evolve_vars == <<initial_population, population, fitness, best_fitness_history,
                 config, fitness_fn, generation, rng, stage>>

\* Calls of mutate_ruleset one after the other: the ruleset, the ruleset
\* the last call was given, the configuration, the number of calls, and
\* the mutation the last call chose.
VARIABLES ruleset, parent, mutation_config, mutations, mutation

mutate_vars == <<ruleset, parent, mutation_config, mutations, mutation>>

\* One call of a crossover function: the two parents, the function called
\* and the child it returned.
VARIABLES parent_a, parent_b, crossover, child

cross_vars == <<parent_a, parent_b, crossover, child>>

\* One call of the fitness function of the evolve command: its arguments,
\* the matchup specs, the matchups run, the stats of the matchup that is
\* being run, the counters of evaluate_ruleset_detailed, the fitness
\* returned, and where the call stands.
VARIABLES eval_args, matchup_specs, all_matchups, matchup_stats, eval_stats,
          eval_fitness, eval_stage

eval_vars == <<eval_args, matchup_specs, all_matchups, matchup_stats, eval_stats,
               eval_fitness, eval_stage>>

\* One call of play_match: the AiConfig, games_per_pair, max_rounds, the
\* game configurations, the outcomes of the games played, the MatchResult
\* returned, and where the call stands.
VARIABLES ai_config, games_per_pair, match_max_rounds, game_configs, outcomes,
          match_result, match_stage

match_vars == <<ai_config, games_per_pair, match_max_rounds, game_configs, outcomes,
                match_result, match_stage>>

\* One search of the alpha-beta AI: the calls that have not returned, from
\* get_best_move up to the running call of negamax, and the order in which
\* the map of the board yields its hexes.  The generator of the search is
\* ai.rng.
VARIABLES stack, map_order

call_vars == <<stack, map_order>>

\* One call of evaluate_ruleset_multi_depth after the other on one ruleset:
\* the ruleset, base_seed and seed_offset of the running call, the two AIs
\* and the rounds of the running game of run_matchup, and the fitness each
\* finished call returned.  The running game is the GameState above; the
\* arguments and the matchups are those of the evaluation above.
VARIABLES matchup_rs, base_seed, seed_offset, white_ai, black_ai, rounds, evaluations

replay_vars == <<matchup_rs, base_seed, seed_offset, white_ai, black_ai, rounds,
                 evaluations>>

\* One call of play_match_parallel: how the game of each game configuration
\* ends, as <<result, rounds>>, and the tasks that have finished, in the
\* order in which they finished.
VARIABLES played, finished

parallel_vars == <<played, finished>>

\* One call of GameRunner::play_game: time_limit_ms of the AiConfig, the
\* milliseconds elapsed since the call, and the elapsed time at which each
\* move was requested from the AI.
VARIABLES time_limit_ms, elapsed, asked_at

clock_vars == <<time_limit_ms, elapsed, asked_at>>

vars == <<game_vars, evolve_vars, mutate_vars, cross_vars, eval_vars, match_vars, call_vars,
         replay_vars, parallel_vars, clock_vars>>

\* no mutation has been chosen
NoMutationChosen == [op |-> "", side |-> "", weight |-> 0]

\* no run of evolve()
NoEvolution ==
    /\ initial_population = <<>>
    /\ population = <<>>
    /\ fitness = <<>>
    /\ best_fitness_history = <<>>
    /\ config = [population_size |-> 0, generations |-> 0, mutation_rate |-> 0,
                 crossover_rate |-> 0, elitism |-> 0, tournament_size |-> 1,
                 evolve_side |-> "Both"]
    /\ fitness_fn = "first_piece"
    /\ generation = 0
    /\ rng = from_seed(1)
    /\ stage = "none"

\* no call of mutate_ruleset
NoMutation ==
    /\ ruleset = DefaultRuleSet
    /\ parent = DefaultRuleSet
    /\ mutation_config = [side |-> "Both", allow_template_mutation |-> FALSE]
    /\ mutations = 0
    /\ mutation = NoMutationChosen

\* no call of a crossover function
NoCrossover ==
    /\ parent_a = DefaultRuleSet
    /\ parent_b = DefaultRuleSet
    /\ crossover = "none"
    /\ child = DefaultRuleSet

\* no call of the fitness function
NoEvaluation ==
    /\ eval_args = [depth |-> 0, games |-> 0, max_rounds |-> 0,
                    multi_depth |-> FALSE, reduced |-> FALSE]
    /\ matchup_specs = <<>>
    /\ all_matchups = <<>>
    /\ matchup_stats = new_matchup_stats(0, 0)
    /\ eval_stats = new_eval_stats(0)
    /\ eval_fitness = F32(0)
    /\ eval_stage = "none"

\* no call of play_match
NoMatch ==
    /\ ai_config = [player_type |-> "AlphaBeta", seed |-> NoSeed]
    /\ games_per_pair = 0
    /\ match_max_rounds = 0
    /\ game_configs = <<>>
    /\ outcomes = <<>>
    /\ match_result = empty_match_result
    /\ match_stage = "none"

\* no search
NoSearch ==
    /\ stack = <<>>
    /\ map_order = "Rising"

\* Option<u64>::None
NoLimit == [some |-> FALSE, value |-> 0]

\* no evaluation is repeated
NoReplay ==
    /\ matchup_rs = DefaultRuleSet
    /\ base_seed = as_u64(0)
    /\ seed_offset = 0
    /\ white_ai = AlphaBetaAI(1, DefaultHeuristics, 1)
    /\ black_ai = AlphaBetaAI(1, DefaultHeuristics, 1)
    /\ rounds = 0
    /\ evaluations = <<>>

\* no parallel match
NoParallel ==
    /\ played = <<>>
    /\ finished = <<>>

\* no timed game
NoClock ==
    /\ time_limit_ms = NoLimit
    /\ elapsed = 0
    /\ asked_at = <<>>

\* the GameState the variables hold
Self ==
    [board |-> board,
     white_king_pos |-> white_king_pos,
     black_king_pos |-> black_king_pos,
     current_player |-> current_player,
     white_template |-> white_template,
     black_template |-> black_template,
     action_index |-> action_index,
     last_piece_pos |-> last_piece_pos,
     round |-> round,
     result |-> result,
     white_phoenix_captured |-> white_phoenix_captured,
     black_phoenix_captured |-> black_phoenix_captured]

Holds(s) ==
    /\ board = s.board
    /\ white_king_pos = s.white_king_pos
    /\ black_king_pos = s.black_king_pos
    /\ current_player = s.current_player
    /\ white_template = s.white_template
    /\ black_template = s.black_template
    /\ action_index = s.action_index
    /\ last_piece_pos = s.last_piece_pos
    /\ round = s.round
    /\ result = s.result
    /\ white_phoenix_captured = s.white_phoenix_captured
    /\ black_phoenix_captured = s.black_phoenix_captured

Init ==
    /\ \E sc \in Scenarios :
          Holds([new(sc[1], sc[2], sc[3], sc[4]) EXCEPT !.round = sc[5]])
    /\ last_move = NoMove
    /\ prev = Self
    /\ plies = 0
    /\ last_by = "None"
    /\ ai = AlphaBetaAI(1, DefaultHeuristics, 1)
    /\ NoEvolution
    /\ NoMutation
    /\ NoCrossover
    /\ NoEvaluation
    /\ NoMatch
    /\ NoSearch
    /\ NoReplay
    /\ NoParallel
    /\ NoClock

\* the variables take the fields of s in the next state
Becomes(s) ==
    /\ board' = s.board
    /\ white_king_pos' = s.white_king_pos
    /\ black_king_pos' = s.black_king_pos
    /\ current_player' = s.current_player
    /\ white_template' = s.white_template
    /\ black_template' = s.black_template
    /\ action_index' = s.action_index
    /\ last_piece_pos' = s.last_piece_pos
    /\ round' = s.round
    /\ result' = s.result
    /\ white_phoenix_captured' = s.white_phoenix_captured
    /\ black_phoenix_captured' = s.black_phoenix_captured

\* state.apply_move(mv)
Apply(mv) ==
    /\ Becomes(apply_move(Self, mv))
    /\ last_move' = mv
    /\ prev' = Self
    /\ plies' = plies + 1
    /\ UNCHANGED <<evolve_vars, mutate_vars, cross_vars, eval_vars, match_vars, call_vars,
                   replay_vars, parallel_vars, clock_vars>>

\* the moves of state.legal_moves() of one variant, while the game is explored
MovesOfKind(kind) ==
    IF plies < MaxPlies THEN {mv \in legal_moves(Self) : mv.kind = kind} ELSE {}

\* the move is a player's own choice; the AI is not asked
ByPlayer == last_by' = "Player" /\ ai' = ai

ApplyPass == \E mv \in MovesOfKind("Pass") : Apply(mv) /\ ByPlayer

ApplySurrender == \E mv \in MovesOfKind("Surrender") : Apply(mv) /\ ByPlayer

ApplyMovement == \E mv \in MovesOfKind("Movement") : Apply(mv) /\ ByPlayer

ApplyRotate == \E mv \in MovesOfKind("Rotate") : Apply(mv) /\ ByPlayer

ApplySwap == \E mv \in MovesOfKind("Swap") : Apply(mv) /\ ByPlayer

ApplyRebirth == \E mv \in MovesOfKind("Rebirth") : Apply(mv) /\ ByPlayer

Next ==
    \/ ApplyPass
    \/ ApplySurrender
    \/ ApplyMovement
    \/ ApplyRotate
    \/ ApplySwap
    \/ ApplyRebirth

Spec == Init /\ [][Next]_vars

(***************************************************************************)
(* Games in which the alpha-beta AI chooses moves (AlphaBetaAI::play_game) *)
(* and another player may choose any legal move.                           *)
(***************************************************************************)
\* number of moves applied along one explored game with the AI
MaxSearchPlies == 2

\* the players of the searched games, as <<depth, seed>>
SearchPlayers == {<<1, 1>>, <<1, 2>>, <<1, 3>>, <<2, 1>>}

D5 == piece_id_to_index("D5")

\* test_ai_captures_king: the white king stands next to the black king,
\* the white queen behind its own king
CaptureWhite == << <<K1, <<0, 0>>, 0>>, <<D5, <<0, 1>>, 0>> >>
CaptureBlack == << <<K1, <<0, -1>>, 3>> >>

\* a pawn in front of the black king, under templates whose turn goes on
\* after the Move action
PawnWhite == << <<K1, <<0, 3>>, 0>>, <<A1, <<0, 0>>, 0>> >>
PawnBlack == << <<K1, <<0, -1>>, 3>>, <<A1, <<2, -3>>, 3>> >>

\* the last round: the kings side by side, the black king on the centre
BrinkWhite == << <<K1, <<1, 0>>, 0>>, <<A1, <<2, 1>>, 0>> >>
BrinkBlack == << <<K1, <<0, 0>>, 3>>, <<A3, <<-2, 0>>, 3>> >>

SearchScenarios ==
    { <<CaptureWhite, CaptureBlack, "E", "E", 1>>,
      <<PawnWhite, PawnBlack, "D", "F", 1>>,
      <<BrinkWhite, BrinkBlack, "E", "E", MAX_ROUNDS>> }

SearchInit ==
    /\ \E sc \in SearchScenarios :
          Holds([new(sc[1], sc[2], sc[3], sc[4]) EXCEPT !.round = sc[5]])
    /\ last_move = NoMove
    /\ prev = Self
    /\ plies = 0
    /\ last_by = "None"
    /\ \E pl \in SearchPlayers :
          ai = AlphaBetaAI(pl[1], DefaultHeuristics, pl[2])
    /\ NoEvolution
    /\ NoMutation
    /\ NoCrossover
    /\ NoEvaluation
    /\ NoMatch
    /\ NoSearch
    /\ NoReplay
    /\ NoParallel
    /\ NoClock

\* the body of the loop of play_game; r is what best_move returns, with
\* the generator as the search left it
PlayBest(r) ==
    /\ r[1] # NoMove
    /\ Apply(r[1])
    /\ last_by' = "AlphaBeta"
    /\ ai' = [ai EXCEPT !.rng = r[2]]

AiMove ==
    /\ plies < MaxSearchPlies
    /\ result = "Ongoing"
    /\ \E order \in HashOrders : PlayBest(best_move(ai, Self, order))

\* a move of a player that is not the alpha-beta AI: some legal move
OtherMove ==
    /\ plies < MaxSearchPlies
    /\ \E mv \in legal_moves(Self) : Apply(mv) /\ ByPlayer

SearchNext ==
    \/ AiMove
    \/ OtherMove

SearchSpec == SearchInit /\ [][SearchNext]_vars

(***************************************************************************)
(* Calls of mutate_ruleset, each on the ruleset the call before returned.  *)
(***************************************************************************)
\* number of calls of mutate_ruleset along one explored chain
MaxMutations == 2

\* no game is played
NoGame ==
    /\ Holds(new(SkirmishWhite, SkirmishBlack, "E", "E"))
    /\ last_move = NoMove
    /\ prev = Self
    /\ plies = 0
    /\ last_by = "None"
    /\ ai = AlphaBetaAI(1, DefaultHeuristics, 1)

\* a ruleset whose black army holds a Warper and a Shifter
BlackWarperShifter ==
    [make_test_ruleset(1) EXCEPT !.black.pieces = <<WARPER_ID, SHIFTER_ID, 1, 1, 1, 1, 1, 1>>]

\* the rulesets the chains start from: every side holds 8 pieces
MutatedRulesets ==
    {make_test_ruleset(1), make_test_ruleset(WARPER_ID), make_test_ruleset(SHIFTER_ID),
     BlackWarperShifter}

MutateInit ==
    /\ NoGame
    /\ NoEvolution
    /\ NoCrossover
    /\ NoEvaluation
    /\ ruleset \in MutatedRulesets
    /\ parent = ruleset
    /\ \E side \in {"White", "Black", "Both"} :
          mutation_config = [side |-> side, allow_template_mutation |-> FALSE]
    /\ mutations = 0
    /\ mutation = NoMutationChosen
    /\ NoMatch
    /\ NoSearch
    /\ NoReplay
    /\ NoParallel
    /\ NoClock

\* ruleset = mutate_ruleset(&ruleset, &mutation_config, &mut rng), the
\* generator in any of its states
Mutate ==
    /\ mutations < MaxMutations
    /\ \E seed \in 1..Len(RawStreams) :
          /\ ruleset' = mutate_ruleset(ruleset, mutation_config, from_seed(seed))[1]
          /\ mutation' = chosen_mutation(mutations_for(mutation_config.side),
                                         from_seed(seed))
    /\ parent' = ruleset
    /\ mutations' = mutations + 1
    /\ UNCHANGED <<mutation_config, game_vars, evolve_vars, cross_vars, eval_vars, match_vars, call_vars,
                   replay_vars, parallel_vars, clock_vars>>

MutateNext == Mutate

MutateSpec == MutateInit /\ [][MutateNext]_vars

(***************************************************************************)
(* Runs of evolve().                                                       *)
(***************************************************************************)
\* config.generations of the explored runs
MaxGenerations == 2

\* the seeds of the generators of the explored runs
EvolveSeeds == {1, 20, 45, 64}

EvolveConfigs ==
    {[population_size |-> p, generations |-> MaxGenerations, mutation_rate |-> m,
      crossover_rate |-> c, elitism |-> e, tournament_size |-> 2, evolve_side |-> side] :
        p \in {0, 2, 3}, m \in {0, 100}, c \in {0, 70}, e \in {0, 1, 4},
        side \in {"White", "Black", "Both"}}

InitialPopulations ==
    { <<>>,
      <<make_test_ruleset(24), make_test_ruleset(1)>>,
      <<make_test_ruleset(0), make_test_ruleset(5), make_test_ruleset(3)>>,
      <<make_test_ruleset(1), make_test_ruleset(3), make_test_ruleset(24),
        make_test_ruleset(0)>>,
      <<BlackWarperShifter, make_test_ruleset(2)>> }

EvolveInit ==
    /\ NoGame
    /\ NoMutation
    /\ NoCrossover
    /\ NoEvaluation
    /\ initial_population \in InitialPopulations
    /\ population = initial_population
    /\ fitness = <<>>
    /\ best_fitness_history = <<>>
    /\ config \in EvolveConfigs
    /\ fitness_fn \in FitnessFns
    /\ generation = 0
    /\ \E seed \in EvolveSeeds : rng = from_seed(seed)
    /\ stage = "start"
    /\ NoMatch
    /\ NoSearch
    /\ NoReplay
    /\ NoParallel
    /\ NoClock

\* "Ensure population is the right size"
EnsurePopulationSize ==
    /\ stage = "start"
    /\ population' = ensure_population_size(population, config.population_size, rng)[1]
    /\ rng' = ensure_population_size(population, config.population_size, rng)[2]
    /\ stage' = "loop"
    /\ UNCHANGED <<initial_population, fitness, best_fitness_history, config,
                   fitness_fn, generation, game_vars, mutate_vars, cross_vars, eval_vars, match_vars, call_vars,
                   replay_vars, parallel_vars, clock_vars>>

\* the next generation made from the population and its fitness vector
Bred(fitness_now) ==
    /\ best_fitness_history' = Append(best_fitness_history, best_of(fitness_now))
    /\ population' = create_next_generation(population, fitness_now, config, rng)[1]
    /\ rng' = create_next_generation(population, fitness_now, config, rng)[2]

\* one round of "for _gen in 0..config.generations"
Generation ==
    /\ stage = "loop"
    /\ generation < config.generations
    /\ Bred(fitness_vec(fitness_fn, population))
    /\ generation' = generation + 1
    /\ UNCHANGED <<initial_population, fitness, config, fitness_fn, stage,
                   game_vars, mutate_vars, cross_vars, eval_vars, match_vars, call_vars,
                   replay_vars, parallel_vars, clock_vars>>

\* "Final evaluation and sort"
FinalSort ==
    /\ stage = "loop"
    /\ generation = config.generations
    /\ population' = sort_by_fitness(population, fitness_vec(fitness_fn, population))[1]
    /\ fitness' = sort_by_fitness(population, fitness_vec(fitness_fn, population))[2]
    /\ stage' = "done"
    /\ UNCHANGED <<initial_population, best_fitness_history, config, fitness_fn,
                   generation, rng, game_vars, mutate_vars, cross_vars, eval_vars, match_vars, call_vars,
                   replay_vars, parallel_vars, clock_vars>>

EvolveNext ==
    \/ EnsurePopulationSize
    \/ Generation
    \/ FinalSort

EvolveSpec == EvolveInit /\ [][EvolveNext]_vars

(***************************************************************************)
(* One call of a crossover function of crossover.rs on two parents.        *)
(***************************************************************************)
\* make_parent_a() of the tests of crossover.rs
make_parent_a ==
    [name |-> "parent-a",
     white |-> Army(25, <<1, 1, 1, 1>>,
                    << <<0, 3>>, <<-1, 3>>, <<1, 2>>, <<-2, 4>>, <<2, 1>> >>,
                    <<0, 0, 0, 0, 0>>, "E"),
     black |-> Army(25, <<2, 2, 2, 2>>,
                    << <<0, -3>>, <<1, -3>>, <<-1, -2>>, <<2, -4>>, <<-2, -1>> >>,
                    <<3, 3, 3, 3, 3>>, "E")]

\* make_parent_b() of the tests of crossover.rs
make_parent_b ==
    [name |-> "parent-b",
     white |-> Army(28, <<16, 16, 16, 16>>,
                    << <<0, 3>>, <<-1, 2>>, <<1, 3>>, <<-2, 3>>, <<2, 2>> >>,
                    <<1, 1, 1, 1, 1>>, "D"),
     black |-> Army(28, <<17, 17, 17, 17>>,
                    << <<0, -3>>, <<1, -2>>, <<-1, -3>>, <<2, -3>>, <<-2, -2>> >>,
                    <<4, 4, 4, 4, 4>>, "D")]

\* the rulesets a crossover is given
CrossoverParents == {make_parent_a, make_parent_b, DefaultRuleSet, make_test_ruleset(2)}

\* the mix rates of crossover_piece_mix, in halves
MixRates == {0, 1, 2}

\* the generators a crossover is given: seeded ones that have drawn up to
\* twice
CrossoverRngs == {after(from_seed(seed), n) : seed \in 1..Len(RawStreams), n \in 0..2}

CrossInit ==
    /\ parent_a \in CrossoverParents
    /\ parent_b \in CrossoverParents
    /\ crossover = "none"
    /\ child = parent_a
    /\ NoGame
    /\ NoEvolution
    /\ NoMutation
    /\ NoEvaluation
    /\ NoMatch
    /\ NoSearch
    /\ NoReplay
    /\ NoParallel
    /\ NoClock

\* the call returned r; the generator is dropped with the call
Crossed(fn, r) ==
    /\ crossover = "none"
    /\ crossover' = fn
    /\ child' = r[1]
    /\ UNCHANGED <<parent_a, parent_b, game_vars, evolve_vars, mutate_vars, eval_vars, match_vars, call_vars,
                   replay_vars, parallel_vars, clock_vars>>

CrossoverRulesets ==
    \E r \in CrossoverRngs :
       Crossed("crossover_rulesets", crossover_rulesets(parent_a, parent_b, r))

CrossoverOneSide ==
    \E r \in CrossoverRngs, preserve_white \in BOOLEAN :
       Crossed("crossover_one_side",
               crossover_one_side(parent_a, parent_b, preserve_white, r))

CrossoverPieceMix ==
    \E r \in CrossoverRngs, mix_rate \in MixRates :
       Crossed("crossover_piece_mix", crossover_piece_mix(parent_a, parent_b, mix_rate, r))

CrossNext ==
    \/ CrossoverRulesets
    \/ CrossoverOneSide
    \/ CrossoverPieceMix

CrossSpec == CrossInit /\ [][CrossNext]_vars

(***************************************************************************)
(* One call of the fitness function create_fitness_fn returns, on some     *)
(* ruleset: the matchups are run game by game, then the fitness is         *)
(* computed.                                                               *)
(***************************************************************************)
\* the largest number of games per evaluation (--games) with which games
\* are played
MaxGames == 2

EvolveArgs(depth, games, max_rounds, multi_depth, reduced) ==
    [depth |-> depth, games |-> games, max_rounds |-> max_rounds,
     multi_depth |-> multi_depth, reduced |-> reduced]

\* the arguments of the explored calls
EvalArgs ==
    {EvolveArgs(d, 0, 50, TRUE, r) : d \in 0..7, r \in BOOLEAN}
        \cup {EvolveArgs(d, g, m, TRUE, FALSE) : d \in {2, 3}, g \in 1..MaxGames, m \in {50, 100}}
        \cup {EvolveArgs(2, g, 50, TRUE, TRUE) : g \in 1..MaxGames}
        \cup {EvolveArgs(4, 1, 50, TRUE, FALSE)}
        \cup {EvolveArgs(2, g, m, FALSE, FALSE) : g \in 0..(MaxGames + 1), m \in {0, 50}}

\* the outcomes of a game of at most max_rounds moves, as <<result, rounds>>:
\* a game is won after at least one move, and stays Ongoing only when
\* max_rounds moves have been applied, since best_move returns a move in
\* every undecided state
GameOutcomes(max_rounds) ==
    {<<"Ongoing", max_rounds>>}
        \cup {<<r, n>> : r \in {"WhiteWins", "BlackWins"}, n \in {4, max_rounds} \cap 1..max_rounds}

EvalInit ==
    /\ eval_args \in EvalArgs
    /\ matchup_specs = <<>>
    /\ all_matchups = <<>>
    /\ matchup_stats = new_matchup_stats(0, 0)
    /\ eval_stats = new_eval_stats(eval_args.games)
    /\ eval_fitness = F32(0)
    /\ eval_stage = "called"
    /\ NoGame
    /\ NoEvolution
    /\ NoMutation
    /\ NoCrossover
    /\ NoMatch
    /\ NoSearch
    /\ NoReplay
    /\ NoParallel
    /\ NoClock

\* build_matchup_specs returned specs; run_matchup is called for the first
BuiltMatchupSpecs(specs) ==
    /\ matchup_specs' = specs
    /\ matchup_stats' = new_matchup_stats(specs[1].depth1, specs[1].depth2)

BuildMatchupSpecs ==
    /\ eval_stage = "called"
    /\ eval_args.multi_depth
    /\ BuiltMatchupSpecs(build_matchup_specs(eval_args.depth, eval_args.games,
                                             eval_args.reduced))
    /\ eval_stage' = "matchups"
    /\ UNCHANGED <<eval_args, all_matchups, eval_stats, eval_fitness,
                   game_vars, evolve_vars, mutate_vars, cross_vars, match_vars, call_vars,
                   replay_vars, parallel_vars, clock_vars>>

\* the matchup whose run_matchup call is under way
RunningMatchup ==
    /\ eval_stage = "matchups"
    /\ Len(all_matchups) < Len(matchup_specs)

\* one game of run_matchup
MatchupGame ==
    /\ RunningMatchup
    /\ matchup_stats.games_played < matchup_specs[Len(all_matchups) + 1].num_games
    /\ \E o \in GameOutcomes(eval_args.max_rounds) :
          matchup_stats' = matchup_game(matchup_stats, matchup_stats.games_played, o[1], o[2])
    /\ UNCHANGED <<eval_args, matchup_specs, all_matchups, eval_stats, eval_fitness,
                   eval_stage, game_vars, evolve_vars, mutate_vars, cross_vars, match_vars, call_vars,
                   replay_vars, parallel_vars, clock_vars>>

\* run_matchup returns, and is called for the next matchup if there is one
MatchupDone ==
    /\ RunningMatchup
    /\ matchup_stats.games_played = matchup_specs[Len(all_matchups) + 1].num_games
    /\ all_matchups' = Append(all_matchups,
                              [spec |-> matchup_specs[Len(all_matchups) + 1],
                               stats |-> matchup_stats])
    /\ matchup_stats' =
          IF Len(all_matchups) + 2 <= Len(matchup_specs)
          THEN new_matchup_stats(matchup_specs[Len(all_matchups) + 2].depth1,
                                 matchup_specs[Len(all_matchups) + 2].depth2)
          ELSE matchup_stats
    /\ UNCHANGED <<eval_args, matchup_specs, eval_stats, eval_fitness, eval_stage,
                   game_vars, evolve_vars, mutate_vars, cross_vars, match_vars, call_vars,
                   replay_vars, parallel_vars, clock_vars>>

\* evaluate_ruleset_multi_depth returns
MultiDepthFitness ==
    /\ eval_stage = "matchups"
    /\ Len(all_matchups) = Len(matchup_specs)
    /\ eval_fitness' = multi_depth_fitness(all_matchups)
    /\ eval_stage' = "done"
    /\ UNCHANGED <<eval_args, matchup_specs, all_matchups, matchup_stats, eval_stats,
                   game_vars, evolve_vars, mutate_vars, cross_vars, match_vars, call_vars,
                   replay_vars, parallel_vars, clock_vars>>

\* the games evaluate_ruleset_detailed has played
games_done(stats) == stats.white_wins + stats.black_wins + stats.draws

\* one game of evaluate_ruleset_detailed
DetailedGame ==
    /\ eval_stage = "called"
    /\ ~eval_args.multi_depth
    /\ games_done(eval_stats) < eval_args.games
    /\ \E o \in GameOutcomes(eval_args.max_rounds) :
          eval_stats' = eval_game(eval_stats, o[1], o[2])
    /\ UNCHANGED <<eval_args, matchup_specs, all_matchups, matchup_stats, eval_fitness,
                   eval_stage, game_vars, evolve_vars, mutate_vars, cross_vars, match_vars, call_vars,
                   replay_vars, parallel_vars, clock_vars>>

\* evaluate_ruleset_fitness returns
EvalStatsFitness ==
    /\ eval_stage = "called"
    /\ ~eval_args.multi_depth
    /\ games_done(eval_stats) = eval_args.games
    /\ eval_fitness' = eval_stats_fitness(eval_stats, eval_args.max_rounds)
    /\ eval_stage' = "done"
    /\ UNCHANGED <<eval_args, matchup_specs, all_matchups, matchup_stats, eval_stats,
                   game_vars, evolve_vars, mutate_vars, cross_vars, match_vars, call_vars,
                   replay_vars, parallel_vars, clock_vars>>

EvalNext ==
    \/ BuildMatchupSpecs
    \/ MatchupGame
    \/ MatchupDone
    \/ MultiDepthFitness
    \/ DetailedGame
    \/ EvalStatsFitness

EvalSpec == EvalInit /\ [][EvalNext]_vars

(***************************************************************************)
(* One call of play_match: the games are played one after the other, then  *)
(* the outcomes are aggregated.                                            *)
(***************************************************************************)
\* the largest games_per_pair of an explored match
MaxGamesPerPair == 3

\* the seeds of the AiConfig of the explored matches
MatchSeeds ==
    {NoSeed, SomeSeed(as_u64(0)), SomeSeed(as_u64(7)), SomeSeed(U64_MAX),
     SomeSeed(<<Limb - 2, Limb - 1, Limb - 1, Limb - 1>>)}

MatchInit ==
    /\ ai_config \in [player_type : {"AlphaBeta", "MCTS"}, seed : MatchSeeds]
    /\ games_per_pair \in 0..MaxGamesPerPair
    /\ match_max_rounds = 50
    /\ game_configs = <<>>
    /\ outcomes = <<>>
    /\ match_result = empty_match_result
    /\ match_stage = "called"
    /\ NoGame
    /\ NoEvolution
    /\ NoMutation
    /\ NoCrossover
    /\ NoEvaluation
    /\ NoSearch
    /\ NoReplay
    /\ NoParallel
    /\ NoClock

\* "if games_per_pair == 0"
ReturnEmpty ==
    /\ match_stage = "called"
    /\ games_per_pair = 0
    /\ match_result' = empty_match_result
    /\ match_stage' = "done"
    /\ UNCHANGED <<ai_config, games_per_pair, match_max_rounds, game_configs, outcomes,
                   game_vars, evolve_vars, mutate_vars, cross_vars, eval_vars, call_vars,
                   replay_vars, parallel_vars, clock_vars>>

PrepareGameConfigs ==
    /\ match_stage = "called"
    /\ games_per_pair # 0
    /\ game_configs' = prepare_game_configs(games_per_pair)
    /\ match_stage' = "games"
    /\ UNCHANGED <<ai_config, games_per_pair, match_max_rounds, outcomes, match_result,
                   game_vars, evolve_vars, mutate_vars, cross_vars, eval_vars, call_vars,
                   replay_vars, parallel_vars, clock_vars>>

\* the next game of execute_games
ExecuteGame ==
    /\ match_stage = "games"
    /\ Len(outcomes) < Len(game_configs)
    /\ \E o \in GameOutcomes(match_max_rounds) :
          outcomes' = Append(outcomes,
                             execute_game(ai_config, game_configs[Len(outcomes) + 1],
                                          o[1], o[2]))
    /\ UNCHANGED <<ai_config, games_per_pair, match_max_rounds, game_configs,
                   match_result, match_stage,
                   game_vars, evolve_vars, mutate_vars, cross_vars, eval_vars, call_vars,
                   replay_vars, parallel_vars, clock_vars>>

AggregateResults ==
    /\ match_stage = "games"
    /\ Len(outcomes) = Len(game_configs)
    /\ match_result' = aggregate_results(outcomes)
    /\ match_stage' = "done"
    /\ UNCHANGED <<ai_config, games_per_pair, match_max_rounds, game_configs, outcomes,
                   game_vars, evolve_vars, mutate_vars, cross_vars, eval_vars, call_vars,
                   replay_vars, parallel_vars, clock_vars>>

MatchNext ==
    \/ ReturnEmpty
    \/ PrepareGameConfigs
    \/ ExecuteGame
    \/ AggregateResults

MatchSpec == MatchInit /\ [][MatchNext]_vars

(***************************************************************************)
(* One search of the alpha-beta AI, call by call.  stack holds a frame for *)
(* get_best_move and, above it, one for every call of negamax that has not *)
(* returned; the last frame is the running call.  A frame holds the        *)
(* arguments of the call, how the call was made (entered), where the call  *)
(* stands (pc), and its locals: the sorted moves, the index of the move    *)
(* being searched, use_lmr of that move, best (best_score in               *)
(* get_best_move), best_move, and the score it returns.                    *)
(***************************************************************************)
Frame(func, state, depth, alpha, beta, allow_null_move, entered) ==
    [func |-> func, state |-> state, depth |-> depth, alpha |-> alpha, beta |-> beta,
     allow_null_move |-> allow_null_move, entered |-> entered, pc |-> "start",
     moves |-> <<>>, move_index |-> 0, use_lmr |-> FALSE,
     best |-> -INFINITY, best_move |-> NoMove, score |-> 0]

\* the condition under which negamax searches the null state
tries_null_move(f, null_state) ==
    /\ f.allow_null_move
    /\ f.depth >= NULL_MOVE_R + 1
    /\ ~is_in_danger(f.state)
    /\ null_state.current_player # f.state.current_player

\* variant: the search of the null state may make a null move of its own
null_move_frame_allowing_null(f, null_state) ==
    Frame("negamax", null_state, f.depth - 1 - NULL_MOVE_R, -f.beta, AddF(-f.beta, 1),
          TRUE, "null")

\* the call negamax makes on the null state
null_move_frame(f, null_state) ==
    Frame("negamax", null_state, f.depth - 1 - NULL_MOVE_R, -f.beta, AddF(-f.beta, 1),
          FALSE, "null")

\* "Late Move Reductions"
use_lmr_of(f, mv, child_state) ==
    /\ child_state.current_player # f.state.current_player
    /\ f.move_index >= LMR_MOVE_THRESHOLD
    /\ f.depth >= LMR_DEPTH_THRESHOLD
    /\ ~is_capture_move(f.state, mv)

\* the first call negamax makes on the child of a move
child_frame(f, child_state, use_lmr) ==
    IF child_state.current_player # f.state.current_player
    THEN Frame("negamax", child_state, IF use_lmr THEN f.depth - 2 ELSE f.depth - 1,
               -f.beta, -f.alpha, TRUE, "turn")
    ELSE Frame("negamax", child_state, f.depth, f.alpha, f.beta, f.allow_null_move, "same")

\* "Re-search at full depth if LMR found promising move"
research_frame(f, child_state) ==
    Frame("negamax", child_state, f.depth - 1, -f.beta, -f.alpha, TRUE, "research")

\* the call get_best_move makes on the child of a move
root_child_frame(f, child_state) ==
    IF child_state.current_player # f.state.current_player
    THEN Frame("negamax", child_state, f.depth - 1, -INFINITY, INFINITY, TRUE, "turn")
    ELSE Frame("negamax", child_state, f.depth, -INFINITY, INFINITY, TRUE, "same")

\* the end of one pass of the loop of negamax: best = best.max(score),
\* alpha = alpha.max(score), break on alpha >= beta, and best is returned
\* when the loop is left
scored(f, score) ==
    IF Max(f.alpha, score) >= f.beta \/ f.move_index + 1 >= Len(f.moves)
    THEN [f EXCEPT !.best = Max(f.best, score), !.alpha = Max(f.alpha, score),
                   !.pc = "return", !.score = Max(f.best, score)]
    ELSE [f EXCEPT !.best = Max(f.best, score), !.alpha = Max(f.alpha, score),
                   !.pc = "loop", !.move_index = f.move_index + 1]

\* negamax goes on after the call it made returned v
resumed(f, entered, v) ==
    CASE entered = "null" ->
            IF -v >= f.beta THEN [f EXCEPT !.pc = "return", !.score = f.beta]
            ELSE [f EXCEPT !.pc = "sort"]
      [] entered = "turn" ->
            IF f.use_lmr /\ -v > f.alpha THEN [f EXCEPT !.pc = "research"]
            ELSE scored(f, -v)
      [] entered = "research" -> scored(f, -v)
      [] entered = "same" -> scored(f, v)

\* the end of one pass of the loop of get_best_move
root_scored(f, score) ==
    [f EXCEPT !.best = IF score > f.best THEN score ELSE f.best,
              !.best_move = IF score > f.best THEN f.moves[f.move_index + 1]
                            ELSE f.best_move,
              !.pc = IF f.move_index + 1 >= Len(f.moves) THEN "return" ELSE "loop",
              !.move_index = f.move_index + 1]

\* get_best_move goes on after the call it made returned v
root_resumed(f, entered, v) == root_scored(f, IF entered = "turn" THEN -v ELSE v)

\* get_best_move up to its loop; moves is what legal_moves() returned
root_started(f, moves, cx) ==
    IF moves = {} THEN [f EXCEPT !.pc = "return"]
    ELSE IF Cardinality(moves) = 1
    THEN [f EXCEPT !.pc = "return", !.best_move = CHOOSE mv \in moves : TRUE]
    ELSE [f EXCEPT !.pc = "loop",
                   !.moves = ordered_moves(f.state, moves, cx.heuristics, cx.max_moves,
                                           cx.order),
                   !.best_move = ordered_moves(f.state, moves, cx.heuristics,
                                               cx.max_moves, cx.order)[1]]

\* the searches explored: the pieces and templates of the searched state,
\* its round, and the depth, max_moves_per_action (a public field of
\* AlphaBetaAI) and seed of the AI
FarWhite == << <<K1, <<0, 4>>, 0>> >>
FarBlack == << <<K1, <<0, -4>>, 3>> >>

GuardWhite == << <<K1, <<0, 4>>, 0>>, <<A1, <<1, 3>>, 0>> >>
GuardBlack == << <<K1, <<0, -4>>, 3>>, <<A1, <<-1, -3>>, 3>> >>

Searches ==
    { <<FarWhite, FarBlack, "E", "E", 1, 7, 2, 1>>,
      <<FarWhite, FarBlack, "D", "D", 1, 3, 3, 1>>,
      <<FarWhite, FarBlack, "E", "E", MAX_ROUNDS, 4, 2, 2>>,
      <<GuardWhite, GuardBlack, "E", "E", 1, 3, 5, 3>>,
      <<CaptureWhite, CaptureBlack, "E", "E", 1, 2, 15, 1>>,
      <<FarWhite, FarBlack, "F", "E", MAX_ROUNDS, 4, 2, 1>>,
      <<CaptureWhite, CaptureBlack, "C", "E", 1, 1, 15, 1>>,
      <<CaptureWhite, CaptureBlack, "E", "E", 1, 3, 3, 1>> }

Top == stack[Len(stack)]

Callers == SubSeq(stack, 1, Len(stack) - 1)

\* what every call of one search hands on unchanged
SearchCx ==
    [heuristics |-> ai.heuristics, max_moves |-> ai.max_moves_per_action,
     noise_scale |-> NOISE_SCALE, order |-> map_order]

\* the running call goes on as the frames given, with the generator given
Continue(frames, next_rng) ==
    /\ stack' = Callers \o frames
    /\ ai' = [ai EXCEPT !.rng = next_rng]
    /\ UNCHANGED <<board, white_king_pos, black_king_pos, current_player,
                   white_template, black_template, action_index, last_piece_pos,
                   round, result, white_phoenix_captured, black_phoenix_captured,
                   last_move, prev, plies, last_by, map_order,
                   evolve_vars, mutate_vars, cross_vars, eval_vars, match_vars,
                   replay_vars, parallel_vars, clock_vars>>

CallInit ==
    /\ \E c \in Searches :
          /\ Holds([new(c[1], c[2], c[3], c[4]) EXCEPT !.round = c[5]])
          /\ ai = [AlphaBetaAI(c[6], DefaultHeuristics, c[8])
                      EXCEPT !.max_moves_per_action = c[7]]
    /\ stack = <<Frame("get_best_move", Self, ai.depth, -INFINITY, INFINITY, TRUE, "call")>>
    /\ map_order \in HashOrders
    /\ last_move = NoMove
    /\ prev = Self
    /\ plies = 0
    /\ last_by = "None"
    /\ NoEvolution
    /\ NoMutation
    /\ NoCrossover
    /\ NoEvaluation
    /\ NoMatch
    /\ NoReplay
    /\ NoParallel
    /\ NoClock

\* get_best_move up to its loop
GetBestMove ==
    /\ stack # <<>>
    /\ Top.func = "get_best_move"
    /\ Top.pc = "start"
    /\ Continue(<<root_started(Top, legal_moves(Top.state), SearchCx)>>, ai.rng)

\* one move of the loop of get_best_move, up to the call of negamax
RootMove ==
    /\ stack # <<>>
    /\ Top.func = "get_best_move"
    /\ Top.pc = "loop"
    /\ IF Top.moves[Top.move_index + 1].kind = "Surrender"
       THEN Continue(<<root_scored(Top, surrender_score(Top.depth))>>, ai.rng)
       ELSE Continue(<<[Top EXCEPT !.pc = "child"],
                       root_child_frame(Top, apply_move(Top.state,
                                                        Top.moves[Top.move_index + 1]))>>,
                     ai.rng)

\* "Terminal check with depth bonus"
Terminal ==
    /\ stack # <<>>
    /\ Top.func = "negamax"
    /\ Top.pc = "start"
    /\ Top.state.result # "Ongoing"
    /\ Continue(<<[Top EXCEPT !.pc = "return",
                              !.score = evaluate_with_depth(Top.state, ai.heuristics,
                                                            Top.depth)]>>,
                ai.rng)

\* "Depth limit", and the return when there is no legal move
DepthLimit ==
    /\ stack # <<>>
    /\ Top.func = "negamax"
    /\ Top.pc = "start"
    /\ Top.state.result = "Ongoing"
    /\ Top.depth <= 0 \/ legal_moves(Top.state) = {}
    /\ Continue(<<[Top EXCEPT !.pc = "return",
                              !.score = evaluate(Top.state, ai.heuristics)
                                          + noise(ai.rng, NOISE_SCALE)]>>,
                drawn(ai.rng))

\* "Null-move pruning": the call on the null state
NullMove ==
    /\ stack # <<>>
    /\ Top.func = "negamax"
    /\ Top.pc = "start"
    /\ Top.state.result = "Ongoing"
    /\ Top.depth > 0
    /\ legal_moves(Top.state) # {}
    /\ tries_null_move(Top, make_null_move(Top.state))
    /\ Continue(<<[Top EXCEPT !.pc = "null"],
                  null_move_frame(Top, make_null_move(Top.state))>>,
                ai.rng)

\* "Sort moves by score (descending)" and "Limit moves", when no null
\* move is tried or the search of the null state did not end the call
SortMoves ==
    /\ stack # <<>>
    /\ Top.func = "negamax"
    /\ \/ Top.pc = "sort"
       \/ /\ Top.pc = "start"
          /\ Top.state.result = "Ongoing"
          /\ Top.depth > 0
          /\ legal_moves(Top.state) # {}
          /\ ~tries_null_move(Top, make_null_move(Top.state))
    /\ Continue(<<[Top EXCEPT !.pc = "loop",
                              !.moves = ordered_moves(Top.state, legal_moves(Top.state),
                                                      ai.heuristics,
                                                      ai.max_moves_per_action, map_order)]>>,
                ai.rng)

\* the frames of negamax and of the call it makes on the child of mv
searching(f, mv, child_state) ==
    <<[f EXCEPT !.pc = "child", !.use_lmr = use_lmr_of(f, mv, child_state)],
      child_frame(f, child_state, use_lmr_of(f, mv, child_state))>>

\* one move of the loop of negamax, up to the call on its child
SearchMove ==
    /\ stack # <<>>
    /\ Top.func = "negamax"
    /\ Top.pc = "loop"
    /\ IF Top.moves[Top.move_index + 1].kind = "Surrender"
       THEN Continue(<<scored(Top, surrender_score(Top.depth))>>, ai.rng)
       ELSE Continue(searching(Top, Top.moves[Top.move_index + 1],
                               apply_move(Top.state, Top.moves[Top.move_index + 1])),
                     ai.rng)

\* the second call on the child of a reduced move
Research ==
    /\ stack # <<>>
    /\ Top.func = "negamax"
    /\ Top.pc = "research"
    /\ Continue(<<[Top EXCEPT !.pc = "child"],
                  research_frame(Top, apply_move(Top.state,
                                                 Top.moves[Top.move_index + 1]))>>,
                ai.rng)

\* a call of negamax returns to the call that made it
Return ==
    /\ Len(stack) > 1
    /\ Top.pc = "return"
    /\ stack' = SubSeq(stack, 1, Len(stack) - 2)
                  \o <<IF stack[Len(stack) - 1].func = "get_best_move"
                       THEN root_resumed(stack[Len(stack) - 1], Top.entered, Top.score)
                       ELSE resumed(stack[Len(stack) - 1], Top.entered, Top.score)>>
    /\ UNCHANGED <<game_vars, map_order,
                   evolve_vars, mutate_vars, cross_vars, eval_vars, match_vars,
                   replay_vars, parallel_vars, clock_vars>>

CallNext ==
    \/ GetBestMove
    \/ RootMove
    \/ Terminal
    \/ DepthLimit
    \/ NullMove
    \/ SortMoves
    \/ SearchMove
    \/ Research
    \/ Return

CallSpec == CallInit /\ [][CallNext]_vars

(***************************************************************************)
(* Properties of the game engine.                                          *)
(***************************************************************************)
\* the hexes of board b that hold a king of side
KingHexes(b, side) == {h \in DOMAIN b : b[h].owner = side /\ is_king(b[h])}

PiecesOf(b, side) == {h \in DOMAIN b : b[h].owner = side}

\* a move has been applied to reach this state
Moved == last_move.kind # "None"

\* the move applied last took a piece standing on its destination
LastMoveCaptured == last_move.kind = "Movement" /\ last_move.to \in DOMAIN prev.board

\* the move applied last took a king
LastMoveTookKing == LastMoveCaptured /\ is_king(prev.board[last_move.to])

\* C1: in every reachable state whose result is Ongoing, legal_moves()
\* contains both Pass and Surrender.
PassAndSurrenderAlwaysLegal ==
    result = "Ongoing" => {Pass, Surrender} \subseteq legal_moves(Self)

\* the game goes on in the middle of a turn, after a move
PassAndSurrenderWitness ==
    /\ Moved /\ result = "Ongoing" /\ action_index = 1
    /\ Pass \in legal_moves(Self) /\ Surrender \in legal_moves(Self)

\* C2: after any sequence of legal moves a side's king is on the board if
\* and only if that side's king position is set, and the position, when
\* set, is exactly the hex that holds that king.
KingPosMatchesBoard ==
    /\ (KingHexes(board, "White") # {}) <=> (white_king_pos # None)
    /\ white_king_pos # None => KingHexes(board, "White") = {white_king_pos}
    /\ (KingHexes(board, "Black") # {}) <=> (black_king_pos # None)
    /\ black_king_pos # None => KingHexes(board, "Black") = {black_king_pos}

\* C3: a legal move other than Surrender advances action_index by one; when
\* that exhausts the mover's template the player flips, action_index is 0,
\* last_piece_pos is cleared and the round grows by one exactly when the new
\* player is White; otherwise player and round stay as they were.
TurnAdvance ==
    (Moved /\ last_move.kind # "Surrender") =>
        IF prev.action_index + 1 >= Len(get_template_actions(current_template(prev)))
        THEN /\ current_player = opponent(prev.current_player)
             /\ action_index = 0
             /\ last_piece_pos = None
             /\ round = prev.round + (IF current_player = "White" THEN 1 ELSE 0)
        ELSE /\ action_index = prev.action_index + 1
             /\ current_player = prev.current_player
             /\ round = prev.round

\* Black's last action of a turn was a Movement: play returns to White
TurnAdvanceWitness ==
    /\ last_move.kind = "Movement"
    /\ prev.current_player = "Black"
    /\ current_player = "White"
    /\ round = prev.round + 1
    /\ action_index = 0

\* C4: a Movement onto the enemy king removes that king from the board and
\* makes the moving player the winner.
KingCaptureWins ==
    (LastMoveTookKing /\ prev.board[last_move.to].owner # prev.current_player) =>
        /\ KingHexes(board, opponent(prev.current_player)) = {}
        /\ result = (IF prev.current_player = "White" THEN "WhiteWins" ELSE "BlackWins")

KingCaptureWitness ==
    /\ LastMoveTookKing
    /\ prev.board[last_move.to].owner # prev.current_player
    /\ prev.result = "Ongoing"

\* the result the proximity rule gives on board b with both kings present
\* (an unresolved game has both kings)
ProximityWinner(b) ==
    LET wk == CHOOSE h \in KingHexes(b, "White") : TRUE
        bk == CHOOSE h \in KingHexes(b, "Black") : TRUE
    IN IF distance_to_center(wk) < distance_to_center(bk) THEN "WhiteWins"
       ELSE IF distance_to_center(bk) < distance_to_center(wk) THEN "BlackWins"
       ELSE IF Cardinality(PiecesOf(b, "White")) > Cardinality(PiecesOf(b, "Black")) THEN "WhiteWins"
       ELSE IF Cardinality(PiecesOf(b, "Black")) > Cardinality(PiecesOf(b, "White")) THEN "BlackWins"
       ELSE "WhiteWins"

\* the last move ended a turn past the round limit without deciding the game
TurnEndedPastLimit ==
    /\ Moved
    /\ current_player # prev.current_player
    /\ round > MAX_ROUNDS
    /\ last_move.kind # "Surrender"
    /\ ~LastMoveTookKing

\* C5: when a turn ends with the round above 50 and no winner yet, the game
\* is resolved at once by proximity: the king strictly closer to the centre
\* wins, then the side with more pieces, then White.
RoundLimitResolves ==
    TurnEndedPastLimit => result = ProximityWinner(board)

\* the kings are equally far from the centre, the armies equally large
RoundLimitWitness ==
    /\ TurnEndedPastLimit
    /\ distance_to_center(white_king_pos) = distance_to_center(black_king_pos)
    /\ Cardinality(PiecesOf(board, "White")) = Cardinality(PiecesOf(board, "Black"))
    /\ result = "WhiteWins"

\* the player who moved a piece to X under template D is at the Rotate action
AfterMovementUnderD ==
    /\ last_move.kind = "Movement"
    /\ current_player = prev.current_player
    /\ current_template(Self) = "D"
    /\ action_index = 1
    /\ last_piece_pos = last_move.to

\* C6 as stated: under template D, after a Movement that sets
\* last_piece_pos = X, legal_moves() contains only Pass, Surrender and Rotate
\* moves, every Rotate on a piece at a position other than X.
OnlyRotateAfterMoveUnderD ==
    AfterMovementUnderD =>
        \A mv \in legal_moves(Self) :
            \/ mv.kind \in {"Pass", "Surrender"}
            \/ mv.kind = "Rotate" /\ mv.from # last_piece_pos

\* C6 as amended: under template D, after a Movement that sets
\* last_piece_pos = X, legal_moves() contains only Pass, Surrender, Rotate
\* moves and the Swap moves of Shifters, every Rotate and Swap acting from a
\* position other than X.
RotateOrShifterSwapAfterMoveUnderD ==
    AfterMovementUnderD =>
        \A mv \in legal_moves(Self) :
            \/ mv.kind \in {"Pass", "Surrender"}
            \/ mv.kind = "Rotate" /\ mv.from # last_piece_pos
            \/ /\ mv.kind = "Swap"
               /\ mv.from # last_piece_pos
               /\ mv.from \in DOMAIN board
               /\ special(board[mv.from]) = "SwapRotate"

\* the piece moved to X could rotate were it not for the constraint, and
\* both a Rotate and a Swap of other pieces are on offer
RotateAfterMoveWitness ==
    /\ AfterMovementUnderD
    /\ get_piece_type(board[last_piece_pos].piece_type).directions # ALL_DIRS
    /\ \E mv \in legal_moves(Self) : mv.kind = "Rotate"
    /\ \E mv \in legal_moves(Self) : mv.kind = "Swap"

\* C7: every Rotate(pos, new_facing) of legal_moves() has new_facing
\* different from the current facing of the piece at pos.
RotateChangesFacing ==
    \A mv \in legal_moves(Self) :
        mv.kind = "Rotate" => mv.new_facing # board[mv.from].facing

\* C8: legal_moves() holds a Movement onto an occupied hex only if the
\* occupant is an enemy and neither the mover nor the occupant is Phased; a
\* friendly occupant is never a destination.
CaptureOnlyUnphasedEnemy ==
    \A mv \in legal_moves(Self) :
        (mv.kind = "Movement" /\ mv.to \in DOMAIN board) =>
            /\ board[mv.to].owner # board[mv.from].owner
            /\ special(board[mv.from]) # "Phased"
            /\ special(board[mv.to]) # "Phased"

\* on a Move action a capture is on offer while a ghost of the player to
\* move touches an enemy piece that is no ghost
CaptureWitness ==
    /\ Moved
    /\ \E mv \in legal_moves(Self) : mv.kind = "Movement" /\ mv.to \in DOMAIN board
    /\ \E g \in PiecesOf(board, current_player), e \in PiecesOf(board, opponent(current_player)) :
          /\ special(board[g]) = "Phased"
          /\ special(board[e]) # "Phased"
          /\ distance_to(g, e) = 1
          /\ \E mv \in legal_moves(Self) : mv.kind = "Movement" /\ mv.from = g

\* C9: every Rebirth(dest, new_facing) of legal_moves() has a destination
\* that is a valid, empty hex adjacent to the king of the player to move.
RebirthNextToKing ==
    \A mv \in legal_moves(Self) :
        mv.kind = "Rebirth" =>
            /\ is_valid(mv.to)
            /\ mv.to \notin DOMAIN board
            /\ \E k \in KingHexes(board, current_player) : distance_to(k, mv.to) = 1

\* a Rebirth is on offer while a piece stands next to the king
RebirthWitness ==
    /\ Moved
    /\ \E mv \in legal_moves(Self) : mv.kind = "Rebirth"
    /\ \E k \in KingHexes(board, current_player), h \in DOMAIN board : distance_to(k, h) = 1

PhoenixFlag(s, side) ==
    IF side = "White" THEN s.white_phoenix_captured ELSE s.black_phoenix_captured

\* C10: a side's phoenix-captured flag goes from false to true only in a
\* step that captures that side's Phoenix; no other move sets it.
PhoenixFlagOnlyByCapture ==
    \A side \in {"White", "Black"} :
        (~PhoenixFlag(prev, side) /\ PhoenixFlag(Self, side)) =>
            /\ LastMoveCaptured
            /\ get_piece_type(prev.board[last_move.to].piece_type).id = "P1"
            /\ prev.board[last_move.to].owner = side

\* the black flag has just been set by a capture
PhoenixFlagWitness ==
    /\ ~PhoenixFlag(prev, "Black")
    /\ PhoenixFlag(Self, "Black")
    /\ LastMoveCaptured

\* C11: legal_moves() never contains a Rotate for a piece whose archetype has
\* directions == ALL_DIRS.
NoRotateForAllDirs ==
    \A mv \in legal_moves(Self) :
        mv.kind = "Rotate" =>
            get_piece_type(board[mv.from].piece_type).directions # ALL_DIRS

\* rotations are on offer while a piece of the player to move that moves in
\* all directions stands on the board and may act
NoRotateForAllDirsWitness ==
    /\ Moved
    /\ \E mv \in legal_moves(Self) : mv.kind = "Rotate"
    /\ current_action(Self)[2] = "Any"
    /\ \E h \in PiecesOf(board, current_player) :
          get_piece_type(board[h].piece_type).directions = ALL_DIRS

\* C12: once the result is decided, legal_moves() returns the empty list.
DecidedGameHasNoMoves ==
    result # "Ongoing" => legal_moves(Self) = {}

\* the game was decided by a move and the player to move is at an action of
\* the template with pieces on the board
DecidedGameWitness ==
    /\ Moved
    /\ result # "Ongoing"
    /\ current_action(Self) # NoAction
    /\ PiecesOf(board, current_player) # {}
    /\ legal_moves(Self) = {}

\* C13: applying Surrender in an ongoing game yields a state whose winner is
\* the opponent of the player who surrendered.
SurrenderGivesOpponentWin ==
    (last_move.kind = "Surrender" /\ prev.result = "Ongoing") =>
        result = (IF prev.current_player = "White" THEN "BlackWins" ELSE "WhiteWins")

\* Black surrenders at the end of round 50: the round limit is passed with
\* the game already decided
SurrenderWitness ==
    /\ last_move.kind = "Surrender"
    /\ prev.result = "Ongoing"
    /\ prev.current_player = "Black"
    /\ round > MAX_ROUNDS
    /\ result = "WhiteWins"

(***************************************************************************)
(* Properties of the search.                                               *)
(***************************************************************************)
\* C14: within a single state, ignoring the centre-distance tiebreak,
\* move_score(Surrender) < move_score(Pass) < move_score(any non-capture
\* Movement) <= move_score(any capturing Movement).
MoveScoreOrdering ==
    result = "Ongoing" =>
        /\ move_score(Self, Surrender, ai.heuristics) < move_score(Self, Pass, ai.heuristics)
        /\ \A m \in legal_moves(Self) :
              (m.kind = "Movement" /\ ~is_capture_move(Self, m)) =>
                 /\ move_score(Self, Pass, ai.heuristics)
                       < move_score(Self, m, ai.heuristics) - center_bonus(m)
                 /\ \A c \in legal_moves(Self) :
                       is_capture_move(Self, c) =>
                          move_score(Self, m, ai.heuristics) - center_bonus(m)
                             <= move_score(Self, c, ai.heuristics) - center_bonus(c)

\* a move away from the centre and the capture of a piece that is no king
\* are both on offer
MoveScoreWitness ==
    /\ Moved
    /\ \E m \in legal_moves(Self) :
          m.kind = "Movement" /\ ~is_capture_move(Self, m) /\ center_bonus(m) < 0
    /\ \E c \in legal_moves(Self) :
          is_capture_move(Self, c) /\ ~is_king(board[c.to])

\* the Movements of legal_moves() that take the enemy king
KingCaptures(s) ==
    {mv \in legal_moves(s) :
        /\ mv.kind = "Movement"
        /\ mv.to \in DOMAIN s.board
        /\ is_king(s.board[mv.to])
        /\ s.board[mv.to].owner # s.current_player}

\* the AI chose the last move in a state that offered the capture of the king
AiCouldTakeKing == last_by = "AlphaBeta" /\ KingCaptures(prev) # {}

\* the position of test_ai_captures_king
CaptureScenario == new(CaptureWhite, CaptureBlack, "E", "E")

\* C15 as stated: when the side to move has a legal Movement that captures
\* the enemy king, get_best_move returns such a Movement and applying it
\* makes the mover the winner; in the scenario the move is the Movement from
\* (0,1) to (0,-1) and the winner is White.
BestMoveTakesKingWithQueen ==
    AiCouldTakeKing =>
        /\ last_move \in KingCaptures(prev)
        /\ result = (IF prev.current_player = "White" THEN "WhiteWins" ELSE "BlackWins")
        /\ prev = CaptureScenario =>
              last_move = Movement(<<0, 1>>, <<0, -1>>, 0) /\ result = "WhiteWins"

\* C15 as amended: when the side to move has a legal Movement that captures
\* the enemy king, get_best_move returns such a Movement and applying it
\* makes the mover the winner; in the scenario the move is the Movement of
\* the white king from (0,0) to (0,-1) and the winner is White.
BestMoveTakesKing ==
    AiCouldTakeKing =>
        /\ last_move \in KingCaptures(prev)
        /\ result = (IF prev.current_player = "White" THEN "WhiteWins" ELSE "BlackWins")
        /\ prev = CaptureScenario =>
              last_move = Movement(<<0, 0>>, <<0, -1>>, 0) /\ result = "WhiteWins"

\* the AI has answered the scenario
BestMoveTakesKingWitness ==
    /\ AiCouldTakeKing
    /\ prev = CaptureScenario
    /\ last_move.to = <<0, -1>>
    /\ result = "WhiteWins"

(***************************************************************************)
(* Properties of the genetic algorithm.                                    *)
(***************************************************************************)
\* each recorded best fitness is at most the one recorded next
NeverDecreases(history) ==
    \A i \in 1..(Len(history) - 1) : history[i].v <= history[i + 1].v

\* the best fitness of the result of a finished run is at least the best
\* fitness recorded first
FinalBestAtLeastInitial ==
    (stage = "done" /\ fitness # <<>>) => fitness[1].v >= best_fitness_history[1].v

\* the fitness function returns a number for every first white piece
ReturnsNoNaN(fn) ==
    \A id \in 1..Len(REGULAR_PIECE_IDS) :
        ~fitness_of(fn, make_test_ruleset(REGULAR_PIECE_IDS[id])).nan

PopulationSizeKept ==
    stage \in {"loop", "done"} => Len(population) = config.population_size

\* a generation built from a population that was filled by cloning
PopulationSizeWitness ==
    /\ stage = "loop"
    /\ generation >= 1
    /\ initial_population # <<>>
    /\ Len(initial_population) < config.population_size
    /\ Len(population) = config.population_size
    /\ config.elitism < config.population_size

(***************************************************************************)
(* Properties of mutate_ruleset.                                           *)
(***************************************************************************)
\* the last call of mutate_ruleset, made for one side, returned the army
\* of the other side as it was given
OtherSideUnchanged ==
    /\ mutation_config.side = "White" => ruleset.black = parent.black
    /\ mutation_config.side = "Black" => ruleset.white = parent.white

\* the ruleset given held a Warper and a Shifter in the army of the side
\* that was not to be mutated
OtherSideHeldBoth ==
    \/ mutation_config.side = "White" /\ has_warper_and_shifter(parent.black)
    \/ mutation_config.side = "Black" /\ has_warper_and_shifter(parent.white)

\* C18 as stated: mutate_ruleset with side = White returns a ruleset whose
\* black king, pieces, positions, facings and template are those of the
\* input, for every input ruleset; with side = Black the white army is
\* unchanged.
MutationLeavesOtherSide ==
    mutations > 0 => OtherSideUnchanged

\* C18 as amended: mutate_ruleset with side = White returns a ruleset
\* whose black king, pieces, positions, facings and template are those of
\* the input, for every input ruleset whose black army does not hold both
\* a Warper and a Shifter; with side = Black the same holds of the white
\* army.
MutationLeavesValidOtherSide ==
    (mutations > 0 /\ ~OtherSideHeldBoth) => OtherSideUnchanged

\* a call for one side that changed the army of that side
MutationLeavesOtherSideWitness ==
    /\ mutations > 0
    /\ mutation_config.side = "White"
    /\ ~OtherSideHeldBoth
    /\ ruleset.white # parent.white
    /\ ruleset.black = parent.black

\* each army holds MIN_PIECES to MAX_PIECES pieces beside its king
PieceCountsInRange(rs) ==
    /\ Len(rs.white.pieces) \in MIN_PIECES..MAX_PIECES
    /\ Len(rs.black.pieces) \in MIN_PIECES..MAX_PIECES

\* C19: if each side of a ruleset has between 8 and 15 non-king pieces,
\* every ruleset obtained from it by calls of mutate_ruleset has between 8
\* and 15 non-king pieces on each side.
MutationKeepsPieceCounts ==
    PieceCountsInRange(parent) => PieceCountsInRange(ruleset)

\* C20: in every ruleset returned by mutate_ruleset, neither side's piece
\* list holds both a Warper and a Shifter.
MutationSeparatesWarperAndShifter ==
    mutations > 0 =>
        ~has_warper_and_shifter(ruleset.white) /\ ~has_warper_and_shifter(ruleset.black)


\* the army of one side of the child is the army of that side of one parent
FactionFromOneParent(side) == child[side] = parent_a[side] \/ child[side] = parent_b[side]

MultiDepthFitnessInUnitInterval ==
    eval_stage = "done" /\ eval_args.multi_depth
        => ~eval_fitness.nan /\ 0 <= eval_fitness.v /\ eval_fitness.v <= ONE.v

\* games were played, the one-colour penalty was applied, and the fitness
\* is above 0 and below 1
MultiDepthFitnessWitness ==
    /\ eval_stage = "done"
    /\ eval_args.multi_depth
    /\ total_of(equal_depth(all_matchups), "games_played") >= 4
    /\ \E i \in 1..Len(all_matchups) :
          /\ all_matchups[i].spec.depth1 = all_matchups[i].spec.depth2
          /\ all_matchups[i].stats.black_wins = 0
    /\ eval_fitness.v > 0
    /\ eval_fitness.v < ONE.v

\* C23 as stated: the fitness handed to the GA is never NaN, also when a
\* denominator is zero (no games, no equal-depth or no asymmetric matchups).
FitnessNeverNaN == eval_stage = "done" => ~eval_fitness.nan

\* the pairs the claim lists for the target depth d
ExpectedDepthPairs(d) ==
    UNION {{<<t, t>>}
              \cup (IF t >= 3 THEN {<<t, t - 1>>} ELSE {})
              \cup (IF t >= 4 THEN {<<t, t - 2>>} ELSE {}) :
           t \in {u \in 2..d : u % 2 = 0} \cup {d}}

\* C25: for a target depth d >= 2 the depth pairs of the matchup spec are
\* exactly (t, t) for each tier t of {2, 4, ...} up to d and d itself,
\* (t, t-1) iff t >= 3 and (t, t-2) iff t >= 4.
MatchupSpecPairs ==
    eval_stage = "matchups" /\ eval_args.depth >= 2
        => {<<matchup_specs[i].depth1, matchup_specs[i].depth2>> :
               i \in 1..Len(matchup_specs)}
           = ExpectedDepthPairs(eval_args.depth)

\* the specs of an odd target depth above 4: seven matchups, the target
\* tier with its 1-ply and 2-ply matchups
MatchupSpecPairsWitness ==
    /\ eval_stage = "matchups"
    /\ eval_args.depth = 5
    /\ Len(matchup_specs) = 7
    /\ \E i \in 1..Len(matchup_specs) :
          matchup_specs[i].depth1 = 5 /\ matchup_specs[i].depth2 = 3


\* the u64 after a
NextU64(a) ==
    IF a = U64_MAX THEN as_u64(0)
    ELSE [k \in 1..4 |->
            IF \A j \in 1..(k - 1) : a[j] = Limb - 1
            THEN (IF a[k] = Limb - 1 THEN 0 ELSE a[k] + 1)
            ELSE a[k]]

\* the n-th u64 after a
RECURSIVE NthAfter(_, _)
NthAfter(a, n) == IF n = 0 THEN a ELSE NthAfter(NextU64(a), n - 1)

\* C24: in play_match the game of index i (from 0) has the first ruleset
\* as White exactly when i is even, and is seeded with base_seed + i.
MatchGameColorsAndSeeds ==
    \A k \in 1..Len(outcomes) :
       /\ outcomes[k].first_ruleset_was_white <=> (k - 1) % 2 = 0
       /\ outcomes[k].white_from = "white_ruleset" <=> (k - 1) % 2 = 0
       /\ outcomes[k].seed = NthAfter(base_seed_of(ai_config), k - 1)
       /\ ai_config.player_type = "AlphaBeta"
             => outcomes[k].ai_seed = SomeSeed(outcomes[k].seed)

\* three games played from a given seed, the second with the second
\* ruleset as White
MatchGameWitness ==
    /\ Len(outcomes) = 3
    /\ ai_config.seed = SomeSeed(as_u64(7))
    /\ ai_config.player_type = "AlphaBeta"
    /\ outcomes[2].white_from = "black_ruleset"
    /\ outcomes[3].ai_seed = SomeSeed(as_u64(9))


\* C26 as stated: a run whose configuration has population_size = 0 is
\* rejected when it is constructed: no generation is evaluated and no
\* statistic is computed.
ZeroPopulationRejected ==
    config.population_size = 0
        => generation = 0 /\ best_fitness_history = <<>> /\ stage # "done"


\* C27: no reachable state of a game is Ongoing with a round number above
\* 50: the game is decided within 50 full rounds.
OngoingWithinRoundLimit == result = "Ongoing" => round <= MAX_ROUNDS

\* Black passed in round 50 of an undecided game, and the game is decided
\* in round 51
OngoingWithinRoundLimitWitness ==
    /\ prev.result = "Ongoing"
    /\ prev.round = MAX_ROUNDS
    /\ prev.current_player = "Black"
    /\ last_move.kind = "Pass"
    /\ round = MAX_ROUNDS + 1
    /\ result # "Ongoing"


\* the frames of the calls made on a null state; the frame below each is
\* the call that searched the state the null state was built from
NullMoves == {i \in 2..Len(stack) : stack[i].entered = "null"}

\* C28 as stated: negamax attempts a null move only in a state where
\* allow_null_move is true, the remaining depth is at least
\* NULL_MOVE_R + 1 = 3, action_index is 0 and the side to move is not in
\* danger.
NullMoveOnlyAtTurnStart ==
    \A i \in NullMoves :
        /\ stack[i - 1].allow_null_move
        /\ stack[i - 1].depth >= NULL_MOVE_R + 1
        /\ stack[i - 1].state.action_index = 0
        /\ ~is_in_danger(stack[i - 1].state)

\* C29: along the calls of a search, between two null moves there is a
\* real move that changed the turn.
NullMovesNeverConsecutive ==
    \A i, j \in NullMoves :
        i < j => \E k \in (i + 1)..(j - 1) : stack[k].entered \in {"turn", "research"}

\* below a null move and before any move that changes the turn, a call
\* with depth 3 or more left whose side is not in danger goes on to its
\* moves
NullMovesNeverConsecutiveWitness ==
    \E i \in NullMoves :
        /\ \A k \in (i + 1)..Len(stack) : stack[k].entered = "same"
        /\ Top.pc = "loop"
        /\ Top.depth >= NULL_MOVE_R + 1
        /\ ~is_in_danger(Top.state)

\* the null state of C30, but for the game result
null_state_of(s) ==
    [s EXCEPT !.current_player = opponent(s.current_player),
              !.action_index = 0,
              !.last_piece_pos = None,
              !.round = IF opponent(s.current_player) = "White"
                        THEN s.round + 1 ELSE s.round]

\* C30 as stated: the null state differs from the searched state only in
\* the current player (flipped), action_index (0), last_piece_pos
\* (cleared) and the round number (one more if and only if the new player
\* is White).
NullStateFrame ==
    \A i \in NullMoves : stack[i].state = null_state_of(stack[i - 1].state)

\* C30, amended: as stated, except that the game result changes, to a
\* decided one, when the round number of the null state is above 50.
NullStateFrameWithinRounds ==
    \A i \in NullMoves :
        /\ stack[i].state = [null_state_of(stack[i - 1].state)
                                EXCEPT !.result = stack[i].state.result]
        /\ stack[i].state.round <= MAX_ROUNDS
              => stack[i].state.result = stack[i - 1].state.result
        /\ stack[i].state.round > MAX_ROUNDS => stack[i].state.result # "Ongoing"

\* a null state built from a state with Black to move: White is to move,
\* the next round has begun and the game is undecided
NullStateFrameWitness ==
    \E i \in NullMoves :
        /\ stack[i - 1].state.current_player = "Black"
        /\ stack[i].state.round = stack[i - 1].state.round + 1
        /\ stack[i].state.result = "Ongoing"


\* the hex on which the piece that performed last_move stands
ActedAt ==
    CASE last_move.kind = "Movement" -> last_move.to
      [] last_move.kind = "Rotate" -> last_move.from
      [] last_move.kind = "Swap" -> last_move.to
      [] last_move.kind = "Rebirth" -> last_move.to
      [] OTHER -> None

\* C31 as stated: when the action to take has constraint Same, the only
\* piece that may act is the piece that performed the previous action of
\* the turn, and when it has constraint Different every piece but that one
\* may act, whatever the previous action was, a Swap included.
ConstraintFollowsActingPiece ==
    (/\ result = "Ongoing"
     /\ action_index >= 1
     /\ last_move.kind \in {"Movement", "Rotate", "Swap", "Rebirth"})
        => \A pos \in DOMAIN board :
              /\ current_action(Self)[2] = "Same"
                    => (satisfies_constraint(Self, pos, "Same") <=> pos = ActedAt)
              /\ current_action(Self)[2] = "Different"
                    => (satisfies_constraint(Self, pos, "Different") <=> pos # ActedAt)


\* the weighted sum of the components of the fitness of the matchups run
ComponentSum ==
    combined_fitness(
        skill_score_of(skill_gradient_of(skill_sums(all_matchups, 1, F32(0), F32(0)))),
        color_fairness_of(equal_depth(all_matchups)),
        game_richness_of(avg_rounds_of(total_of(all_matchups, "total_rounds"),
                                       total_of(all_matchups, "games_played"))),
        decisiveness_of(total_of(all_matchups, "draws"),
                        total_of(all_matchups, "games_played")))

\* the matchups of equal depths in which one colour never won
OneColourMatchups ==
    {i \in 1..Len(all_matchups) :
        /\ all_matchups[i].spec.depth1 = all_matchups[i].spec.depth2
        /\ (all_matchups[i].stats.white_wins = 0 \/ all_matchups[i].stats.black_wins = 0)}

\* C32 as stated: the multi-depth fitness is the weighted component sum,
\* times 0.3 exactly once if some matchup of equal depths shows no win of
\* one colour while 4 or more games of equal depths were played, and times
\* 0.5 if and only if skill_gradient < 0.80.
PenaltiesAppliedOnce ==
    eval_stage = "done" /\ eval_args.multi_depth
        => eval_fitness =
              f32_mul(f32_mul(ComponentSum,
                              IF /\ total_of(equal_depth(all_matchups), "games_played") >= 4
                                 /\ OneColourMatchups # {}
                              THEN F32(300) ELSE ONE),
                      IF f32_lt(skill_gradient_of(skill_sums(all_matchups, 1, F32(0), F32(0))),
                                F32(800))
                      THEN F32(500) ELSE ONE)


\* the positions and facings of army are those of before with the entries
\* at i and j exchanged
Exchanged(before, army, i, j) ==
    /\ army.positions = SwapAt(before.positions, i, j)
    /\ army.facings = SwapAt(before.facings, i, j)

\* C33 as stated: the swap_two_positions mutation exchanges the positions
\* and facings of two distinct pieces that are not the king (indices
\* i # j, both 1 or more) and leaves every other entry unchanged.
SwapTwoExchangesDistinct ==
    mutations > 0 /\ mutation.op = "swap_two_positions"
                  /\ ~has_warper_and_shifter(parent.white)
                  /\ ~has_warper_and_shifter(parent.black)
        => \E i, j \in 1..(Len(parent[mutation.side].positions) - 1) :
              /\ i # j
              /\ Exchanged(parent[mutation.side], ruleset[mutation.side], i, j)
              /\ ruleset = [parent EXCEPT ![mutation.side].positions =
                                              ruleset[mutation.side].positions,
                                          ![mutation.side].facings =
                                              ruleset[mutation.side].facings]


\* the side an evolution with evolve_side = White or Black leaves alone
LockedSide == IF config.evolve_side = "White" THEN "black" ELSE "white"

\* the faction of the locked side of every individual is that of some
\* individual of the starting population
LockedFactionsFromStart ==
    \A i \in 1..Len(population) :
        \E k \in 1..Len(initial_population) :
            population[i][LockedSide] = initial_population[k][LockedSide]

\* C34 as stated: in a run with evolve_side = White the black faction
\* (king, pieces, positions, facings, template) of every individual of every
\* generation is the black faction of some individual of the starting
\* population, and likewise for evolve_side = Black and the white faction.
LockedFactionKept ==
    config.evolve_side \in {"White", "Black"} => LockedFactionsFromStart

\* C34, amended: as stated, for a starting population that is not empty
\* and in which no faction of the locked side holds both a Warper and a
\* Shifter.
LockedFactionKeptWithoutWarperShifter ==
    (/\ config.evolve_side \in {"White", "Black"}
     /\ initial_population # <<>>
     /\ \A k \in 1..Len(initial_population) :
           ~has_warper_and_shifter(initial_population[k][LockedSide]))
        => LockedFactionsFromStart

\* after two generations of a run with evolve_side = White an individual
\* made by crossover has a white faction that no individual of the
\* starting population has, and the black faction of one of them
LockedFactionKeptWitness ==
    /\ config.evolve_side = "White"
    /\ initial_population # <<>>
    /\ generation = 2
    /\ \E i \in 1..Len(population) :
          /\ population[i].name = "crossover"
          /\ \A k \in 1..Len(initial_population) :
                population[i].white # initial_population[k].white
          /\ \E k \in 1..Len(initial_population) :
                population[i].black = initial_population[k].black

(***************************************************************************)
(* evaluate_ruleset_multi_depth called twice on one ruleset in one run of  *)
(* evolve, move by move: run_matchup plays every game with two alpha-beta  *)
(* AIs seeded from base_seed, which the call draws from thread_rng().      *)
(***************************************************************************)
\* the setup RuleSet::to_game_state builds of one army: the king on the
\* first position, then each piece that has a position
setup_of(army, default_facing) ==
    LET facing_at(k) == IF k <= Len(army.facings) THEN army.facings[k]
                        ELSE default_facing
    IN (IF army.positions # <<>>
        THEN << <<army.king, army.positions[1], facing_at(1)>> >>
        ELSE <<>>)
         \o [i \in 1..Min(Len(army.pieces), Max(Len(army.positions) - 1, 0)) |->
                <<army.pieces[i], army.positions[i + 1], facing_at(i + 1)>>]

\* RuleSet::to_game_state
to_game_state(rs) ==
    new(setup_of(rs.white, 0), setup_of(rs.black, 3), rs.white.template, rs.black.template)

\* AlphaBetaAI::with_seed for a u64 seed: the seed names the stream of the
\* generator
with_seed(depth, heuristics, seed) ==
    AlphaBetaAI(depth, heuristics, (seed[1] % Len(RngStreams)) + 1)

\* "base_seed.wrapping_add(game_idx as u64 * 12345)" of run_matchup, called
\* with base_seed.wrapping_add(seed_offset)
game_seed(base, offset, game_idx) ==
    wrapping_add(wrapping_add(base, offset), game_idx * 12345)

\* the values thread_rng() may yield for base_seed
ThreadRngDraws == {as_u64(0), as_u64(1), as_u64(2)}

\* number of calls of evaluate_ruleset_multi_depth on the ruleset
MaxEvaluations == 2

\* the moves a game of a repeated evaluation may last (--max-rounds)
ReplayRounds == {6}

\* a king and one piece on each side
SmallRuleSet(white_piece, black_piece, white_t, black_t) ==
    [name |-> "small",
     white |-> Army(K1, <<white_piece>>, << <<0, 1>>, <<1, 0>> >>, <<0, 0>>, white_t),
     black |-> Army(K1, <<black_piece>>, << <<0, -1>>, <<1, -1>> >>, <<3, 3>>, black_t)]

\* The white slider stands three hexes from the black king and faces away
\* from it; once it is rotated to facing 1, the moves that take the black
\* king off the line come after the first max_moves_per_action moves of
\* Black in the order of the sort.
NetRuleSet ==
    [name |-> "net",
     white |-> Army(K1, <<D1>>, << <<0, 0>>, <<-1, 0>> >>, <<0, 3>>, "E"),
     black |-> Army(K1, <<A1, A1, A1>>,
                    << <<2, -3>>, <<2, -2>>, <<-1, -2>>, <<-2, -1>> >>,
                    <<3, 3, 3, 3>>, "E")]

ReplayRuleSets ==
    {SmallRuleSet(A1, P1, "E", "E"), NetRuleSet}

\* the game of index game_idx of the running matchup begins
StartGame(stats, offset, base, game_idx) ==
    /\ Becomes(to_game_state(matchup_rs))
    /\ white_ai' = with_seed(white_depth_of(stats, game_idx), DefaultHeuristics,
                             game_seed(base, offset, game_idx))
    /\ black_ai' = with_seed(black_depth_of(stats, game_idx), DefaultHeuristics,
                             wrapping_add(game_seed(base, offset, game_idx), 7777))
    /\ rounds' = 0
    /\ last_move' = NoMove

ReplayInit ==
    /\ eval_args \in {EvolveArgs(2, 1, m, TRUE, r) : m \in ReplayRounds, r \in BOOLEAN}
    /\ matchup_rs \in ReplayRuleSets
    /\ matchup_specs = <<>>
    /\ all_matchups = <<>>
    /\ matchup_stats = new_matchup_stats(0, 0)
    /\ eval_stats = new_eval_stats(eval_args.games)
    /\ eval_fitness = F32(0)
    /\ eval_stage = "called"
    /\ base_seed = as_u64(0)
    /\ seed_offset = 0
    /\ white_ai = AlphaBetaAI(1, DefaultHeuristics, 1)
    /\ black_ai = AlphaBetaAI(1, DefaultHeuristics, 1)
    /\ rounds = 0
    /\ evaluations = <<>>
    /\ stack = <<>>
    /\ map_order \in HashOrders
    /\ NoGame
    /\ NoEvolution
    /\ NoMutation
    /\ NoCrossover
    /\ NoMatch
    /\ NoParallel
    /\ NoClock

\* evaluate_ruleset_multi_depth up to the first game of the first matchup;
\* seed is what rng.gen() yields for base_seed
Evaluating(specs, seed) ==
    /\ matchup_specs' = specs
    /\ all_matchups' = <<>>
    /\ matchup_stats' = new_matchup_stats(specs[1].depth1, specs[1].depth2)
    /\ base_seed' = seed
    /\ seed_offset' = 0
    /\ StartGame(new_matchup_stats(specs[1].depth1, specs[1].depth2), 0, seed, 0)

EvaluateRuleset ==
    /\ eval_stage = "called"
    /\ \E seed \in ThreadRngDraws :
          Evaluating(build_matchup_specs(eval_args.depth, eval_args.games,
                                         eval_args.reduced), seed)
    /\ eval_stage' = "matchups"
    /\ UNCHANGED <<eval_args, eval_stats, eval_fitness, matchup_rs, evaluations,
                   prev, plies, last_by, ai,
                   evolve_vars, mutate_vars, cross_vars, match_vars, call_vars,
                   parallel_vars, clock_vars>>

\* the game of run_matchup goes on: "while current.result() == Ongoing &&
\* rounds < max_rounds" and best_move returns a move
GameGoesOn ==
    /\ RunningMatchup
    /\ matchup_stats.games_played < matchup_specs[Len(all_matchups) + 1].num_games
    /\ result = "Ongoing"
    /\ rounds < eval_args.max_rounds
    /\ legal_moves(Self) # {}

\* r is what best_move of the AI of the player to move returns
MovedBy(r) ==
    /\ Becomes(apply_move(Self, r[1]))
    /\ last_move' = r[1]
    /\ rounds' = rounds + 1
    /\ IF current_player = "White"
       THEN white_ai' = [white_ai EXCEPT !.rng = r[2]] /\ black_ai' = black_ai
       ELSE black_ai' = [black_ai EXCEPT !.rng = r[2]] /\ white_ai' = white_ai

\* one pass of the loop of a game of run_matchup
RunMatchupMove ==
    /\ GameGoesOn
    /\ MovedBy(best_move(IF current_player = "White" THEN white_ai ELSE black_ai,
                         Self, map_order))
    /\ UNCHANGED <<eval_vars, matchup_rs, base_seed, seed_offset, evaluations,
                   prev, plies, last_by, ai,
                   evolve_vars, mutate_vars, cross_vars, match_vars, call_vars,
                   parallel_vars, clock_vars>>

\* the running game is over and has been counted; the next game of the
\* matchup begins if there is one
Counted(stats) ==
    /\ matchup_stats' = stats
    /\ IF stats.games_played < matchup_specs[Len(all_matchups) + 1].num_games
       THEN StartGame(stats, seed_offset, base_seed, stats.games_played)
       ELSE UNCHANGED <<board, white_king_pos, black_king_pos, current_player,
                        white_template, black_template, action_index, last_piece_pos,
                        round, result, white_phoenix_captured, black_phoenix_captured,
                        last_move, white_ai, black_ai, rounds>>

RunMatchupGameOver ==
    /\ RunningMatchup
    /\ matchup_stats.games_played < matchup_specs[Len(all_matchups) + 1].num_games
    /\ ~GameGoesOn
    /\ Counted(matchup_game(matchup_stats, matchup_stats.games_played, result, rounds))
    /\ UNCHANGED <<eval_args, matchup_specs, all_matchups, eval_stats, eval_fitness,
                   eval_stage, matchup_rs, base_seed, seed_offset, evaluations,
                   prev, plies, last_by, ai,
                   evolve_vars, mutate_vars, cross_vars, match_vars, call_vars,
                   parallel_vars, clock_vars>>

\* run_matchup returns; "seed_offset += spec.num_games as u64 * 1000", and
\* run_matchup is called for matchup_specs[next] if there is one
NextMatchup(offset, next) ==
    /\ seed_offset' = offset
    /\ IF next <= Len(matchup_specs)
       THEN /\ matchup_stats' = new_matchup_stats(matchup_specs[next].depth1,
                                                  matchup_specs[next].depth2)
            /\ StartGame(new_matchup_stats(matchup_specs[next].depth1,
                                           matchup_specs[next].depth2),
                         offset, base_seed, 0)
       ELSE UNCHANGED <<matchup_stats,
                        board, white_king_pos, black_king_pos, current_player,
                        white_template, black_template, action_index, last_piece_pos,
                        round, result, white_phoenix_captured, black_phoenix_captured,
                        last_move, white_ai, black_ai, rounds>>

RunMatchupReturns ==
    /\ RunningMatchup
    /\ matchup_stats.games_played = matchup_specs[Len(all_matchups) + 1].num_games
    /\ all_matchups' = Append(all_matchups,
                              [spec |-> matchup_specs[Len(all_matchups) + 1],
                               stats |-> matchup_stats])
    /\ NextMatchup(seed_offset + matchup_specs[Len(all_matchups) + 1].num_games * 1000,
                   Len(all_matchups) + 2)
    /\ UNCHANGED <<eval_args, matchup_specs, eval_stats, eval_fitness, eval_stage,
                   matchup_rs, base_seed, evaluations,
                   prev, plies, last_by, ai,
                   evolve_vars, mutate_vars, cross_vars, match_vars, call_vars,
                   parallel_vars, clock_vars>>

\* evaluate_ruleset_multi_depth returns the fitness
Returned(fitness_now) ==
    /\ eval_fitness' = fitness_now
    /\ evaluations' = Append(evaluations, fitness_now)

ReturnFitness ==
    /\ eval_stage = "matchups"
    /\ Len(all_matchups) = Len(matchup_specs)
    /\ Returned(multi_depth_fitness(all_matchups))
    /\ eval_stage' = "done"
    /\ UNCHANGED <<eval_args, matchup_specs, all_matchups, matchup_stats, eval_stats,
                   matchup_rs, base_seed, seed_offset, white_ai, black_ai, rounds,
                   game_vars, evolve_vars, mutate_vars, cross_vars, match_vars, call_vars,
                   parallel_vars, clock_vars>>

\* the fitness function is called on the same ruleset once more
EvaluateAgain ==
    /\ eval_stage = "done"
    /\ Len(evaluations) < MaxEvaluations
    /\ eval_stage' = "called"
    /\ UNCHANGED <<eval_args, matchup_specs, all_matchups, matchup_stats, eval_stats,
                   eval_fitness, replay_vars,
                   game_vars, evolve_vars, mutate_vars, cross_vars, match_vars, call_vars,
                   parallel_vars, clock_vars>>

ReplayNext ==
    \/ EvaluateRuleset
    \/ RunMatchupMove
    \/ RunMatchupGameOver
    \/ RunMatchupReturns
    \/ ReturnFitness
    \/ EvaluateAgain

ReplaySpec == ReplayInit /\ [][ReplayNext]_vars

\* C35 as stated: two multi-depth evaluations of the same ruleset with the
\* same configuration in a run with one configured seed return the same
\* fitness.
SameSeedSameFitness ==
    \A i, j \in 1..Len(evaluations) : evaluations[i] = evaluations[j]

(***************************************************************************)
(* One call of play_match_parallel: rayon runs the games as tasks that     *)
(* finish in any order, and collect() puts what each task returns at the   *)
(* index of its game configuration.  A game is played by a GameRunner of   *)
(* its own from its configuration and seed, so that it ends the same way   *)
(* in play_match.                                                          *)
(***************************************************************************)
ParallelInit ==
    /\ ai_config \in [player_type : {"AlphaBeta", "MCTS"},
                      seed : {NoSeed, SomeSeed(U64_MAX)}]
    /\ games_per_pair \in 0..MaxGamesPerPair
    /\ match_max_rounds = 50
    /\ played \in [1..games_per_pair -> GameOutcomes(match_max_rounds)]
    /\ finished = <<>>
    /\ game_configs = <<>>
    /\ outcomes = <<>>
    /\ match_result = empty_match_result
    /\ match_stage = "called"
    /\ NoGame
    /\ NoEvolution
    /\ NoMutation
    /\ NoCrossover
    /\ NoEvaluation
    /\ NoSearch
    /\ NoReplay
    /\ NoClock

\* "if games_per_pair == 0" of play_match_parallel
ParallelReturnEmpty ==
    /\ match_stage = "called"
    /\ games_per_pair = 0
    /\ match_result' = empty_match_result
    /\ match_stage' = "done"
    /\ UNCHANGED <<ai_config, games_per_pair, match_max_rounds, game_configs, outcomes,
                   parallel_vars,
                   game_vars, evolve_vars, mutate_vars, cross_vars, eval_vars, call_vars,
                   replay_vars, clock_vars>>

ParallelPrepareGameConfigs ==
    /\ match_stage = "called"
    /\ games_per_pair # 0
    /\ game_configs' = prepare_game_configs(games_per_pair)
    /\ match_stage' = "games"
    /\ UNCHANGED <<ai_config, games_per_pair, match_max_rounds, outcomes, match_result,
                   parallel_vars,
                   game_vars, evolve_vars, mutate_vars, cross_vars, eval_vars, call_vars,
                   replay_vars, clock_vars>>

\* the indices of the tasks that have finished
Finished == {finished[i].index : i \in 1..Len(finished)}

\* the task of one game finishes, whatever the others have done
TaskFinishes ==
    /\ match_stage = "games"
    /\ \E k \in (1..Len(game_configs)) \ Finished :
          finished' = Append(finished,
                             [index |-> k,
                              value |-> execute_game_parallel(ai_config, game_configs[k],
                                                              played[k][1], played[k][2])])
    /\ UNCHANGED <<match_vars, played,
                   game_vars, evolve_vars, mutate_vars, cross_vars, eval_vars, call_vars,
                   replay_vars, clock_vars>>

\* every task has finished: execute_games_parallel returns
Collect ==
    /\ match_stage = "games"
    /\ Len(finished) = Len(game_configs)
    /\ outcomes' = collect(finished)
    /\ match_stage' = "collected"
    /\ UNCHANGED <<ai_config, games_per_pair, match_max_rounds, game_configs,
                   match_result, parallel_vars,
                   game_vars, evolve_vars, mutate_vars, cross_vars, eval_vars, call_vars,
                   replay_vars, clock_vars>>

ParallelAggregateResults ==
    /\ match_stage = "collected"
    /\ match_result' = aggregate_results(outcomes)
    /\ match_stage' = "done"
    /\ UNCHANGED <<ai_config, games_per_pair, match_max_rounds, game_configs, outcomes,
                   parallel_vars,
                   game_vars, evolve_vars, mutate_vars, cross_vars, eval_vars, call_vars,
                   replay_vars, clock_vars>>

ParallelNext ==
    \/ ParallelReturnEmpty
    \/ ParallelPrepareGameConfigs
    \/ TaskFinishes
    \/ Collect
    \/ ParallelAggregateResults

ParallelSpec == ParallelInit /\ [][ParallelNext]_vars

\* the counts of a MatchResult
Counts(r) == <<r.white_wins, r.black_wins, r.draws, r.games_played>>

Gained(field) == matchup_stats'[field] - matchup_stats[field]

\* a step that counts the game of index matchup_stats.games_played credits
\* it by colour, the deeper side playing White in the games of even index
CreditedByColour ==
    LET deeper_is_white == matchup_stats.games_played % 2 = 0
        deeper_won == \/ Gained("white_wins") = 1 /\ deeper_is_white
                      \/ Gained("black_wins") = 1 /\ ~deeper_is_white
        shallower_won == \/ Gained("white_wins") = 1 /\ ~deeper_is_white
                         \/ Gained("black_wins") = 1 /\ deeper_is_white
    IN /\ Gained("deeper_wins") = IF deeper_won THEN 1 ELSE 0
       /\ Gained("shallower_wins") = IF shallower_won THEN 1 ELSE 0
       /\ Gained("draws") = IF deeper_won \/ shallower_won THEN 0 ELSE 1

\* C37 as stated: in every matchup the deeper side plays White exactly in
\* the games of even index, every decided game is credited to the deeper or
\* the shallower side by the colour that side played, and a game that ends
\* Ongoing is counted as a draw.
WinsCreditedByColour ==
    [][Gained("games_played") = 1 => CreditedByColour]_vars

\* a step that counts a game credits it to the deeper side when it is decided
CreditedToDeeper ==
    /\ Gained("deeper_wins") = Gained("white_wins") + Gained("black_wins")
    /\ Gained("shallower_wins") = 0
    /\ Gained("draws") = 1 - Gained("deeper_wins")
    /\ Gained("deeper_wins") \in {0, 1}

\* C37, amended: in a matchup of two different depths the deeper side plays
\* White exactly in the games of even index and every decided game is
\* credited to the deeper or the shallower side by the colour that side
\* played; in a matchup of equal depths every decided game is credited to the
\* deeper side; a game that ends Ongoing is counted as a draw.
WinsCreditedByDepth ==
    [][Gained("games_played") = 1 =>
          IF matchup_stats.deeper_depth # matchup_stats.shallower_depth
          THEN /\ CreditedByColour
               /\ (white_depth_of(matchup_stats, matchup_stats.games_played)
                      = matchup_stats.deeper_depth)
                     <=> matchup_stats.games_played % 2 = 0
               /\ (black_depth_of(matchup_stats, matchup_stats.games_played)
                      = matchup_stats.deeper_depth)
                     <=> matchup_stats.games_played % 2 = 1
          ELSE CreditedToDeeper]_vars

\* two games of a matchup of different depths have been counted, one won by
\* each side
WinsCreditedByDepthWitness ==
    /\ matchup_stats.deeper_depth # matchup_stats.shallower_depth
    /\ matchup_stats.games_played = 2
    /\ matchup_stats.deeper_wins = 1
    /\ matchup_stats.shallower_wins = 1
    /\ matchup_stats.white_wins = 2

\* the state of the running call, lost by the player to move
LostByMover ==
    [Top.state EXCEPT !.result = IF Top.state.current_player = "White"
                                 THEN "BlackWins" ELSE "WhiteWins"]

\* the move the loop of the running call is about to score is Surrender
ScoringSurrender ==
    /\ stack # <<>>
    /\ Top.pc = "loop"
    /\ Top.moves[Top.move_index + 1].kind = "Surrender"

\* C38: in the search, Surrender at remaining depth d is scored
\* -WIN_VALUE - d + 0.5 without a call on a child, and that score is
\* strictly greater than the score of a state lost at the same depth.
SurrenderShortcut ==
    [][ScoringSurrender =>
          /\ Len(stack') = Len(stack)
          /\ stack'[Len(stack)].best
                = Max(Top.best, -WIN_VALUE - Top.depth * 100 + 50)
          /\ stack'[Len(stack)].best >= surrender_score(Top.depth)
          /\ surrender_score(Top.depth)
                > evaluate_with_depth(LostByMover, ai.heuristics, Top.depth)
          /\ evaluate_with_depth(LostByMover, ai.heuristics, Top.depth)
                = -WIN_VALUE - Top.depth * 100]_vars

\* a call of negamax with depth left has scored Surrender, the last of its
\* moves, and returns
SurrenderShortcutWitness ==
    /\ stack # <<>>
    /\ Top.func = "negamax"
    /\ Top.pc = "return"
    /\ Top.depth >= 1
    /\ Top.moves # <<>>
    /\ Top.move_index + 1 = Len(Top.moves)
    /\ Top.moves[Top.move_index + 1].kind = "Surrender"

(***************************************************************************)
(* The depth bonus of decided states, seen from the root of a search.      *)
(***************************************************************************)
\* the side get_best_move searches for
RootPlayer == stack[1].state.current_player

\* the moves applied between the root and the running call
PliesFromRoot ==
    Cardinality({k \in 2..Len(stack) : stack[k].entered \in {"turn", "same", "research"}})

\* the running call has returned the score of a decided state
DecidedTop ==
    /\ stack # <<>>
    /\ Top.func = "negamax"
    /\ Top.pc = "return"
    /\ Top.state.result # "Ongoing"

\* s is decided for the root
WonByRoot(s) == s.result = (IF RootPlayer = "White" THEN "WhiteWins" ELSE "BlackWins")

RootWins == WonByRoot(Top.state)

\* the score of the running call from the root's point of view
RootView == IF Top.state.current_player = RootPlayer THEN Top.score ELSE -Top.score

\* the deepest search explored
DeepestSearch == CHOOSE d \in {c[6] : c \in Searches} : \A c \in Searches : c[6] <= d

\* the changes of turn between the root and the running call
TurnsFromRoot ==
    Cardinality({k \in 2..Len(stack) : stack[k].entered \in {"turn", "research"}})

\* no call of the line searches a null state
NoPass == \A k \in 2..Len(stack) : stack[k].entered # "null"

\* no call of the line was made at the reduced depth
NoReduction == \A k \in 2..Len(stack) : ~(stack[k].entered = "turn" /\ stack[k - 1].use_lmr)

\* the bonuses a decided state can be scored with, towards either side
Bonuses == -DeepestSearch..DeepestSearch

\* what a state decided for or against the root scores with bonus d
DecidedScore(won, d) == IF won THEN WIN_VALUE + d * 100 ELSE -WIN_VALUE - d * 100

\* a decided state scored later in the search is ranked against one that
\* was scored s at distance away from the root
RankedByDistance(won, away, s, away_now) ==
    /\ away < away_now => IF won THEN s > RootView ELSE s < RootView
    /\ away_now < away => IF won THEN RootView > s ELSE RootView < s

\* the best move of get_best_move so far wins the game at once: a win one
\* ply away from the root, scored stack[1].best
BestSoFarWinsAtOnce ==
    /\ stack[1].func = "get_best_move"
    /\ stack[1].best >= WIN_VALUE
    /\ stack[1].best_move # NoMove
    /\ WonByRoot(apply_move(stack[1].state, stack[1].best_move))

\* C39 as stated: a win of the root fewer plies away scores strictly
\* higher than one more plies away; here the closer win is one ply away,
\* and the further one is the decided state the running call scored
ScoresOrderedByPlies ==
    (DecidedTop /\ NoPass /\ RootWins /\ PliesFromRoot > 1 /\ BestSoFarWinsAtOnce)
        => stack[1].best > RootView

\* C39, amended: the bonus is the depth left, which falls with the changes
\* of turn and not with the moves: on lines without null move or reduction,
\* of two wins of the root the one fewer turns away scores strictly higher,
\* of two losses the one more turns away scores strictly higher, and two
\* decided states as many turns away score the same however many moves led
\* to them
ScoresOrderedByTurns ==
    \A won \in BOOLEAN, away \in 0..DeepestSearch, d \in Bonuses :
       []((DecidedTop /\ NoPass /\ NoReduction /\ RootWins = won /\ TurnsFromRoot = away
              /\ RootView = DecidedScore(won, d))
            => [](DecidedTop /\ NoPass /\ NoReduction /\ RootWins = won
                    => /\ RankedByDistance(won, away, DecidedScore(won, d), TurnsFromRoot)
                       /\ TurnsFromRoot = away => RootView = DecidedScore(won, d)))

\* a win three turns away is scored after a win one turn away was
ScoresOrderedByTurnsWitness ==
    /\ DecidedTop
    /\ NoPass
    /\ NoReduction
    /\ RootWins
    /\ TurnsFromRoot = 3
    /\ stack[1].best = DecidedScore(TRUE, ai.depth - 1)
    /\ RootView = DecidedScore(TRUE, ai.depth - 3)

(***************************************************************************)
(* GameRunner::play_alpha_beta: one game played by AlphaBetaAI::play_game  *)
(* for an AiConfig whose time_limit_ms is set or not.  time_limit_ms is    *)
(* that field of the AiConfig, match_max_rounds is max_rounds, plies is    *)
(* moves_made, elapsed is the time in milliseconds since the game began    *)
(* and asked_at holds, for every call of best_move, the elapsed time at    *)
(* which it was made.  A search takes any time of SearchTimes.             *)
(***************************************************************************)
MaxElapsed == 4

SearchTimes == 0..2

TimeLimits == {NoLimit} \cup {[some |-> TRUE, value |-> v] : v \in 1..2}

\* the games played: the pieces, the templates and the round they start in
TimedGames ==
    { <<FarWhite, FarBlack, "E", "E", MAX_ROUNDS - 1>>,
      <<GuardWhite, GuardBlack, "E", "E", MAX_ROUNDS - 2>>,
      <<CaptureWhite, CaptureBlack, "E", "E", 1>> }

TimedInit ==
    /\ \E c \in TimedGames :
          Holds([new(c[1], c[2], c[3], c[4]) EXCEPT !.round = c[5]])
    /\ last_move = NoMove
    /\ prev = Self
    /\ plies = 0
    /\ last_by = "None"
    /\ ai = AlphaBetaAI(1, DefaultHeuristics, 1)
    /\ ai_config \in [player_type : {"AlphaBeta"}, seed : {NoSeed, SomeSeed(as_u64(1))}]
    /\ games_per_pair = 1
    /\ match_max_rounds = 1
    /\ game_configs = <<>>
    /\ outcomes = <<>>
    /\ match_result = empty_match_result
    /\ match_stage = "called"
    /\ time_limit_ms \in TimeLimits
    /\ elapsed = 0
    /\ asked_at = <<>>
    /\ NoEvolution
    /\ NoMutation
    /\ NoCrossover
    /\ NoEvaluation
    /\ NoSearch
    /\ NoReplay
    /\ NoParallel

\* play_alpha_beta up to the call of play_game: the AI is made by with_seed
\* with the seed of next_seed(); the games are played at depth 1
PlayAlphaBeta ==
    /\ match_stage = "called"
    /\ ai' = with_seed(1, DefaultHeuristics, base_seed_of(ai_config))
    /\ match_stage' = "playing"
    /\ UNCHANGED <<board, white_king_pos, black_king_pos, current_player,
                   white_template, black_template, action_index, last_piece_pos,
                   round, result, white_phoenix_captured, black_phoenix_captured,
                   last_move, prev, plies, last_by,
                   ai_config, games_per_pair, match_max_rounds, game_configs, outcomes,
                   match_result,
                   evolve_vars, mutate_vars, cross_vars, eval_vars, call_vars,
                   replay_vars, parallel_vars, clock_vars>>

\* "while state.result() == GameResult::Ongoing && moves_made < max_moves",
\* with best_move returning a move
PlayGameGoesOn ==
    /\ match_stage = "playing"
    /\ result = "Ongoing"
    /\ plies < match_max_rounds * 10
    /\ legal_moves(Self) # {}

\* r is what best_move returned after a search that took dt milliseconds
PlayGameMoved(r, dt) ==
    /\ elapsed + dt <= MaxElapsed
    /\ asked_at' = Append(asked_at, elapsed)
    /\ elapsed' = elapsed + dt
    /\ Becomes(apply_move(Self, r[1]))
    /\ last_move' = r[1]
    /\ plies' = plies + 1
    /\ ai' = [ai EXCEPT !.rng = r[2]]

\* one pass of the loop of play_game
PlayGameMove ==
    /\ PlayGameGoesOn
    /\ \E dt \in SearchTimes : PlayGameMoved(best_move(ai, Self, map_order), dt)
    /\ UNCHANGED <<prev, last_by, time_limit_ms, match_vars,
                   evolve_vars, mutate_vars, cross_vars, eval_vars, call_vars,
                   replay_vars, parallel_vars>>

\* play_game returns and play_alpha_beta builds the GameOutcome
PlayGameReturns ==
    /\ match_stage = "playing"
    /\ ~PlayGameGoesOn
    /\ outcomes' = <<[result |-> result, rounds |-> round]>>
    /\ match_stage' = "done"
    /\ UNCHANGED <<ai_config, games_per_pair, match_max_rounds, game_configs,
                   match_result,
                   game_vars, evolve_vars, mutate_vars, cross_vars, eval_vars, call_vars,
                   replay_vars, parallel_vars, clock_vars>>

TimedNext ==
    \/ PlayAlphaBeta
    \/ PlayGameMove
    \/ PlayGameReturns

TimedSpec == TimedInit /\ [][TimedNext]_vars

\* the limit of the configuration has been exceeded
LimitExceeded(at) == time_limit_ms.some /\ at > time_limit_ms.value

\* C40 as stated: when time_limit_ms is set, no move is requested once the
\* elapsed time has exceeded the limit
NoMoveAfterTimeLimit == \A k \in DOMAIN asked_at : ~LimitExceeded(asked_at[k])

====
